---- MODULE Spec2Model ----
(***************************************************************************)
(* Cleaning and imputation pipeline of the Formula 1 prediction project:   *)
(* era reconciliation (clean_raw.py), session aggregation (clean_raw.py,   *)
(* project_functions.py), historical features and imputation              *)
(* (clean_merged.py) and identity resolution (utils.py).                   *)
(*                                                                         *)
(* A table (pandas DataFrame) is a sequence of records, one per row, in    *)
(* row order.  A missing cell (NaN / None) is the empty tuple NA; a        *)
(* numeric cell is a reduced fraction <<n, d>>, so that the means the      *)
(* code takes are exact.                                                   *)
(***************************************************************************)
EXTENDS Integers, Sequences, FiniteSets, TLC

VARIABLES
    races_2001_raw,        \* data/raw/race_results_raw_2001-2017.csv
    races_2001,            \* data/clean/race_results_clean_2001-2017.csv
    races_2018_raw,        \* data/raw/race_results_raw_2018+.csv
    races_2018,            \* data/clean/race_results_clean_2018+.csv
    practices,             \* data/raw/pratice_results_raw.csv
    practices_aggregated,  \* data/clean/practice_results_clean.csv
    qualifying,            \* data/raw/qualifying_results_raw.csv
    qualifying_cleaned,    \* data/clean/qualifying_results_clean.csv
    pre_qual_df,           \* data/intermediate/f1_data_pre_qual_raw.csv
    pre_qual_clean,        \* data/final, pre-qualifying table
    pre_race_df,           \* data/intermediate/f1_data_pre_race_raw.csv
    pre_race_clean,        \* data/final, pre-race table
    id_map_file,           \* data/raw/<col_name>_map.pkl
    cell_texts,            \* the cells of the id column being scraped
    col_values,            \* col_info['values'] of that column
    write_outcomes,        \* what the next attempts to write a file meet
    returned,              \* the latest call of load_id_map / save_id_map
    raised,                \* the exception the latest step met, if any
    id_map_styria,         \* module-level global of clean_raw.py
    id_map_anniversary,    \* module-level global of clean_raw.py
    rounds,                \* data/raw/rounds_raw.csv
    pit_stops,             \* data/raw/pit_stop_results_raw.csv
    pit_stops_2016,        \* data/raw/pit_stop_results_raw_2016-2017.csv
    pit_stops_clean,       \* data/clean/pit_stops_clean.csv
    flags,                 \* data/clean/flags_clean.csv
    circuits,              \* data/clean/circuits_clean.csv
    locations,             \* data/clean/locations_clean.csv
    f1_data_m6,            \* data/intermediate/f1_data_neutral_merges.csv
    flags_raw,             \* data/raw/flag_results_raw.csv
    stage,                 \* clean_all: the number of calls it has made
    in_stage,              \* clean_all: whether the latest call is running
    files,                 \* clean_all: <<file, stage>>, the stage that last
                           \* wrote each file
    done                   \* clean_all: the stages that have returned

eraVars == <<races_2001_raw, races_2001, races_2018_raw, races_2018,
             id_map_styria, id_map_anniversary>>

sessionVars == <<practices, practices_aggregated, qualifying, qualifying_cleaned>>

finalVars == <<pre_qual_df, pre_qual_clean, pre_race_df, pre_race_clean>>

idVars == <<id_map_file, cell_texts, col_values, write_outcomes, returned,
            raised>>

mergeVars == <<rounds, pit_stops, pit_stops_2016, pit_stops_clean, flags,
               circuits, locations, f1_data_m6>>

runVars == <<flags_raw, stage, in_stage, files, done>>

vars == <<eraVars, sessionVars, finalVars, idVars, mergeVars, runVars>>

-----------------------------------------------------------------------------
(* Cells, fractions and sequence helpers                                   *)

NA == <<>>

\* a file that has not been written yet (distinct from every table)
NoFile == <<[no_file |-> TRUE]>>

\* the empty field of a CSV file as a text cell, and no exception raised
NaText == ""

\* a global name that has not been assigned; a bound one is <<value>>
Unbound == <<>>

isna(x) == x = NA

notna(x) == x # NA

Abs(n) == IF n < 0 THEN -n ELSE n

RECURSIVE Gcd(_, _)
Gcd(a, b) == IF b = 0 THEN a ELSE Gcd(b, a % b)

\* the fraction n/d (d > 0) in lowest terms
Frac(n, d) == LET g == Gcd(Abs(n), d) IN <<n \div g, d \div g>>

Num(n) == <<n, 1>>

FAdd(a, b) == Frac(a[1] * b[2] + b[1] * a[2], a[2] * b[2])

FDivInt(a, k) == Frac(a[1], a[2] * k)

FLess(a, b) == a[1] * b[2] < b[1] * a[2]

RECURSIVE FSum(_)
FSum(s) == IF s = <<>> THEN Num(0) ELSE FAdd(s[1], FSum(Tail(s)))

RECURSIVE SelectSeqNotNa(_)
SelectSeqNotNa(s) ==
    IF s = <<>> THEN <<>>
    ELSE IF isna(s[1]) THEN SelectSeqNotNa(Tail(s))
         ELSE <<s[1]>> \o SelectSeqNotNa(Tail(s))

\* Series.mean(): the mean of the non-missing cells, NaN when there is none
Mean(s) ==
    LET known == SelectSeqNotNa(s)
    IN  IF known = <<>> THEN NA ELSE FDivInt(FSum(known), Len(known))

RECURSIVE FMaxSeq(_)
FMaxSeq(s) ==
    IF Len(s) = 1 THEN s[1]
    ELSE LET m == FMaxSeq(Tail(s)) IN IF FLess(s[1], m) THEN m ELSE s[1]

\* Series.max(): the largest non-missing cell, NaN when there is none
Max(s) ==
    LET known == SelectSeqNotNa(s)
    IN  IF known = <<>> THEN NA ELSE FMaxSeq(known)

\* Series.fillna(other): a missing cell takes the aligned cell of other
fillna(x, other) == IF isna(x) THEN other ELSE x

\* the elements of the set S of integers in increasing order
RECURSIVE AscSeq(_)
AscSeq(S) ==
    IF S = {} THEN <<>>
    ELSE LET m == CHOOSE x \in S : \A y \in S : x <= y
         IN  <<m>> \o AscSeq(S \ {m})

\* the elements of s at the indices idx, in that order
Pick(s, idx) == [k \in 1..Len(idx) |-> s[idx[k]]]

\* the last n elements of s (all of s when it is shorter)
LastN(s, n) == IF Len(s) <= n THEN s ELSE SubSeq(s, Len(s) - n + 1, Len(s))

\* the position of x in the sequence idx of distinct elements, 0 if absent
RankIn(idx, x) ==
    IF \E k \in 1..Len(idx) : idx[k] = x
    THEN CHOOSE k \in 1..Len(idx) : idx[k] = x
    ELSE 0

\* the place of row i when the rows of s are sorted by Before, ties kept in
\* row order (a stable sort)
SortedPlace(s, i, Before(_, _)) ==
    1 + Cardinality({j \in 1..Len(s) :
                       \/ Before(s[j], s[i])
                       \/ (~Before(s[i], s[j]) /\ j < i)})

\* the row indices of s in sorted order
SortIdx(s, Before(_, _)) ==
    [k \in 1..Len(s) |-> CHOOSE i \in 1..Len(s) : SortedPlace(s, i, Before) = k]

\* DataFrame.sort_values: the rows of s in the order Before, ties in row order
SortRows(s, Before(_, _)) == Pick(s, SortIdx(s, Before))

-----------------------------------------------------------------------------
(* Historical feature engine: clean_pre_qual / clean_pre_race              *)

\* the trailing windows of the rolling average finish
windows == {3, 5, 10}

\* the statuses whose rates are computed
rate_statuses == {"CLAS", "DNF", "NC"}

\* the columns of a result row that enter all_races
HistCols(row) ==
    [driver_id |-> row.driver_id, year |-> row.year, round |-> row.round,
     position |-> row.position, position_status |-> row.position_status,
     points |-> row.points, team_id |-> row.team_id]

\* the order of sort_values(['driver_id', 'year', 'round'])
ChronoBefore(a, b) ==
    \/ a.driver_id < b.driver_id
    \/ a.driver_id = b.driver_id /\ a.year < b.year
    \/ a.driver_id = b.driver_id /\ a.year = b.year /\ a.round < b.round

\* pd.concat of the two eras, sorted by driver and then chronologically
all_races_of(df, r2001) ==
    SortRows([k \in 1..Len(r2001) |-> HistCols(r2001[k])]
             \o [k \in 1..Len(df) |-> HistCols(df[k])], ChronoBefore)

\* the rows of the table before row i, in row order, that are in i's group
PriorInGroup(all, i, Same(_, _)) ==
    AscSeq({j \in 1..(i - 1) : Same(all[j], all[i])})

SameDriver(a, b) == a.driver_id = b.driver_id

SameTeam(a, b) == a.team_id = b.team_id

SameTeamRace(a, b) ==
    a.team_id = b.team_id /\ a.year = b.year /\ a.round = b.round

\* groupby('driver_id').cumcount(): the number of earlier rows of the driver
cumcount(all, i) == Len(PriorInGroup(all, i, SameDriver))

\* cumcount().shift(1).fillna(0): the shift runs over the whole sorted frame,
\* so a row takes the count of the row above it, whichever driver that is
cumulative_races(all, i) == IF i = 1 THEN 0 ELSE cumcount(all, i - 1)

\* transform((x == 1).cumsum().shift(1).fillna(0)) within the driver
cumulative_wins(all, i) ==
    Cardinality({j \in 1..(i - 1) : SameDriver(all[j], all[i])
                                     /\ all[j].position = 1})

\* transform(x.isin([1, 2, 3]).cumsum().shift(1).fillna(0)) within the driver
cumulative_podiums(all, i) ==
    Cardinality({j \in 1..(i - 1) : SameDriver(all[j], all[i])
                                     /\ all[j].position \in {1, 2, 3}})

RECURSIVE SumSeq(_)
SumSeq(s) == IF s = <<>> THEN 0 ELSE s[1] + SumSeq(Tail(s))

\* transform(x.cumsum().shift(1).fillna(0)) within the driver
cumulative_points(all, i) ==
    LET prior == PriorInGroup(all, i, SameDriver)
    IN  SumSeq([k \in 1..Len(prior) |-> all[prior[k]].points])

\* the rolling mean with min_periods=1
driver_avg_finish_any(all, i, w) ==
    LET prior == PriorInGroup(all, i, SameDriver)
        pos   == [k \in 1..Len(prior) |-> Num(all[prior[k]].position)]
    IN  Mean(LastN(pos, w))

\* transform(x.shift(1).rolling(w, min_periods=w).mean()) within the driver
driver_avg_finish_last(all, i, w) ==
    LET prior == PriorInGroup(all, i, SameDriver)
        pos   == [k \in 1..Len(prior) |-> Num(all[prior[k]].position)]
    IN  IF Len(pos) >= w THEN Mean(LastN(pos, w)) ELSE NA

\* groupby(['team_id', 'year', 'round'])['position'].mean(), merged back
team_race_avg_position(all, i) ==
    LET grp == AscSeq({j \in 1..Len(all) : SameTeamRace(all[j], all[i])})
    IN  Mean([k \in 1..Len(grp) |-> Num(all[grp[k]].position)])

\* transform(x.shift(1).rolling(w, min_periods=1).mean()) within the team;
\* the rows of a team are in the frame's order: by driver, then by date
team_avg_finish_last(all, i, w) ==
    LET prior == PriorInGroup(all, i, SameTeam)
        avgs  == [k \in 1..Len(prior) |-> team_race_avg_position(all, prior[k])]
    IN  Mean(LastN(avgs, w))

\* (x.shift(1) == status).expanding().mean() within the driver: the shifted
\* first cell compares False and is counted in the expanding window
status_rate(all, i, status) ==
    LET prior == PriorInGroup(all, i, SameDriver)
        hits  == Cardinality({k \in 1..Len(prior) :
                                all[prior[k]].position_status = status})
    IN  Frac(hits, Len(prior) + 1)

\* (all_races['position_status'] == status).mean()
overall_rate(all, status) ==
    Frac(Cardinality({j \in 1..Len(all) : all[j].position_status = status}),
         Len(all))

\* the row of all_races that the left merge on (driver_id, year, round) joins
\* to the row of the era table
MergeKey(all, row) ==
    CHOOSE i \in 1..Len(all) :
        /\ all[i].driver_id = row.driver_id
        /\ all[i].year = row.year
        /\ all[i].round = row.round

\* the historical columns added to a row of the era table
historical_features(all, row) ==
    LET i == MergeKey(all, row)
    IN  [cumulative_races   |-> cumulative_races(all, i),
         cumulative_wins    |-> cumulative_wins(all, i),
         cumulative_podiums |-> cumulative_podiums(all, i),
         cumulative_points  |-> cumulative_points(all, i),
         avg_finish_last    |-> [w \in windows |->
                                    fillna(driver_avg_finish_last(all, i, w),
                                           team_avg_finish_last(all, i, w))],
         rate               |-> [st \in rate_statuses |->
                                    fillna(status_rate(all, i, st),
                                           overall_rate(all, st))]]

\* rookie_flag: the race year is the driver's first year in all_races
rookie_flag(all, row) ==
    \A j \in 1..Len(all) :
        all[j].driver_id = row.driver_id => row.year <= all[j].year

\* rename(columns={'end_position': 'position', 'round_number': 'round'})
Renamed(row) ==
    [f \in (DOMAIN row \ {"end_position", "round_number"}) \cup {"position", "round"} |->
        IF f = "position" THEN row.end_position
        ELSE IF f = "round" THEN row.round_number
        ELSE row[f]]

-----------------------------------------------------------------------------
(* Context-aware imputer: pit-stop averages and starting grid              *)

pit_time_cols == {"avg_pit_time_last_5", "avg_pit_time_last_10"}

SameRaceId(a, b) == a.race_id = b.race_id

SameTeamRaceId(a, b) == a.team_id = b.team_id /\ a.race_id = b.race_id

AnyRow(a, b) == TRUE

\* groupby(keys)[col].transform('mean'): the mean of the cells of row i's group
GroupMean(df, col, i, Same(_, _)) ==
    Mean(Pick(col, AscSeq({j \in 1..Len(df) : Same(df[j], df[i])})))

\* col.fillna(groupby(keys)[col].transform('mean'))
GroupFill(df, col, Same(_, _)) ==
    [i \in 1..Len(df) |-> fillna(col[i], GroupMean(df, col, i, Same))]

\* the fills with the race average taken before the team's historical average
impute_pit_times_col_race_first(df, col) ==
    LET team_race  == GroupFill(df, col, SameTeamRaceId)
        race_avg   == GroupFill(df, team_race, SameRaceId)
        team_hist  == GroupFill(df, race_avg, SameTeam)
    IN  GroupFill(df, team_hist, AnyRow)

\* the four fills of a pit-time column, each on the column the previous left
impute_pit_times_col(df, col) ==
    LET team_race  == GroupFill(df, col, SameTeamRaceId)
        team_hist  == GroupFill(df, team_race, SameTeam)
        race_avg   == GroupFill(df, team_hist, SameRaceId)
    IN  GroupFill(df, race_avg, AnyRow)

Column(df, name) == [i \in 1..Len(df) |-> df[i][name]]

\* the backfill that gives every missing row of a race the same place
impute_start_position_same_place(df, i) ==
    LET grp == AscSeq({j \in 1..Len(df) : SameRaceId(df[j], df[i])})
        max_start_position == Max(Pick(Column(df, "start_position"), grp))
    IN  IF notna(df[i].start_position) THEN df[i].start_position
        ELSE IF notna(max_start_position)
             THEN FAdd(max_start_position, Num(1))
             ELSE Num(1)

\* the start_position of row i after the per-race backfill
impute_start_position(df, i) ==
    LET grp     == AscSeq({j \in 1..Len(df) : SameRaceId(df[j], df[i])})
        missing == AscSeq({j \in 1..Len(df) : SameRaceId(df[j], df[i])
                                               /\ isna(df[j].start_position)})
        max_start_position == Max(Pick(Column(df, "start_position"), grp))
    IN  IF notna(df[i].start_position) THEN df[i].start_position
        ELSE IF notna(max_start_position)
             THEN FAdd(max_start_position, Num(RankIn(missing, i)))
             ELSE Num(RankIn(missing, i))

\* the qualifying columns of session 1, 2 or 3
q_col(session) ==
    CASE session = 1 -> "q1_time" [] session = 2 -> "q2_time"
      [] session = 3 -> "q3_time"

flag_col(session) ==
    CASE session = 1 -> "q1_no_lap_time_flag"
      [] session = 2 -> "q2_no_lap_time_flag"
      [] session = 3 -> "q3_no_lap_time_flag"

\* a flag cell is <<TRUE>>, <<FALSE>> or missing; astype(bool) of a cell
to_bool(cell) == IF isna(cell) THEN TRUE ELSE cell[1]

\* flag.where(~mask, False): False where the time of the session is missing
flag_where(df, i, session) ==
    IF isna(df[i][q_col(session)]) THEN <<FALSE>> ELSE df[i][flag_col(session)]

\* a missing qual_position is the largest one of the race + 1
impute_qual_position(df, i) ==
    LET grp == AscSeq({j \in 1..Len(df) : SameRaceId(df[j], df[i])})
        max_qual_position == Max(Pick(Column(df, "qual_position"), grp))
    IN  IF notna(df[i].qual_position) THEN df[i].qual_position
        ELSE IF notna(max_qual_position)
             THEN FAdd(max_qual_position, Num(1))
             ELSE NA

\* a missing time is the largest one of the race + 5 (session 1) or + 10
impute_q_time(df, i, session) ==
    LET grp == AscSeq({j \in 1..Len(df) : SameRaceId(df[j], df[i])})
        max_time == Max(Pick(Column(df, q_col(session)), grp))
    IN  IF notna(df[i][q_col(session)]) THEN df[i][q_col(session)]
        ELSE IF notna(max_time)
             THEN FAdd(max_time, Num(IF session = 1 THEN 5 ELSE 10))
             ELSE NA

-----------------------------------------------------------------------------
(* The two final tables                                                    *)

\* the practice sessions whose columns are imputed; the column
\* <name>_FP<n> of a table is the field <name>_FP[n] of a row
session_nums == {1, 2, 3}

\* the cells of the column col of session n in the race of row i, in row
\* order, the cells of the other races left out
practice_group(df, i, col, n) ==
    [k \in 1..Len(df) |-> IF SameRaceId(df[k], df[i]) THEN df[k][col][n] ELSE NA]

\* participated_FP: False where lap_count_FP is missing and no value exists
participated_filled(df, i, n) ==
    IF isna(df[i].lap_count_FP[n])
    THEN fillna(df[i].participated_FP[n], <<FALSE>>)
    ELSE df[i].participated_FP[n]

\* recorded_lap_time_FP: False where best_time_FP is missing
recorded_filled(df, i, n) ==
    IF isna(df[i].best_time_FP[n]) THEN <<FALSE>>
    ELSE df[i].recorded_lap_time_FP[n]

\* position_FP: the largest position of the race + 1, when there is one
last_place(df, i, n) ==
    LET max_position == Max(practice_group(df, i, "position_FP", n))
    IN  IF isna(df[i].position_FP[n]) /\ notna(max_position)
        THEN FAdd(max_position, Num(1))
        ELSE df[i].position_FP[n]

\* best_time_FP: 1.05 times the last known best time of the race
imputed_best_time(df, i, n) ==
    LET known == SelectSeqNotNa(practice_group(df, i, "best_time_FP", n))
    IN  IF isna(df[i].best_time_FP[n]) /\ known # <<>>
        THEN Frac(known[Len(known)][1] * 21, known[Len(known)][2] * 20)
        ELSE df[i].best_time_FP[n]

\* the practice columns of row i after the loop over the sessions; the two
\* flags after astype(bool)
practices_imputed(df, i) ==
    [participated_FP |-> [n \in session_nums |->
                             to_bool(participated_filled(df, i, n))],
     lap_count_FP |-> [n \in session_nums |->
                          fillna(df[i].lap_count_FP[n], Num(0))],
     recorded_lap_time_FP |-> [n \in session_nums |->
                                  to_bool(recorded_filled(df, i, n))],
     position_FP |-> [n \in session_nums |-> last_place(df, i, n)],
     best_time_FP |-> [n \in session_nums |-> imputed_best_time(df, i, n)]]

\* astype(int) of a practice position that is still missing raises ValueError
position_missing(table) ==
    \E i \in 1..Len(table), n \in session_nums : isna(table[i].position_FP[n])

\* the final pre-qualifying table computed from the intermediate table df
\* and the older-era results r2001
pre_qual_table(df, r2001) ==
    LET renamed == [i \in 1..Len(df) |-> Renamed(df[i])]
        all     == all_races_of(renamed, r2001)
        pit5    == impute_pit_times_col(renamed, Column(renamed, "avg_pit_time_last_5"))
        pit10   == impute_pit_times_col(renamed, Column(renamed, "avg_pit_time_last_10"))
    IN  [i \in 1..Len(df) |->
            practices_imputed(renamed, i)
            @@ [renamed[i] EXCEPT !.avg_pit_time_last_5 = pit5[i],
                                  !.avg_pit_time_last_10 = pit10[i]]
            @@ historical_features(all, renamed[i])
            @@ [rookie_flag |-> rookie_flag(all, renamed[i])]]

\* the final pre-race table: the same steps, then the grid backfill
pre_race_table(df, r2001) ==
    LET renamed == [i \in 1..Len(df) |-> Renamed(df[i])]
        all     == all_races_of(renamed, r2001)
        pit5    == impute_pit_times_col(renamed, Column(renamed, "avg_pit_time_last_5"))
        pit10   == impute_pit_times_col(renamed, Column(renamed, "avg_pit_time_last_10"))
    IN  [i \in 1..Len(df) |->
            practices_imputed(renamed, i) @@
            [renamed[i] EXCEPT !.avg_pit_time_last_5 = pit5[i],
                               !.avg_pit_time_last_10 = pit10[i],
                               !.q1_no_lap_time_flag =
                                    to_bool(flag_where(renamed, i, 1)),
                               !.q2_no_lap_time_flag =
                                    to_bool(flag_where(renamed, i, 2)),
                               !.q3_no_lap_time_flag =
                                    to_bool(flag_where(renamed, i, 3)),
                               !.qual_position = impute_qual_position(renamed, i),
                               !.q1_time = impute_q_time(renamed, i, 1),
                               !.q2_time = impute_q_time(renamed, i, 2),
                               !.q3_time = impute_q_time(renamed, i, 3),
                               !.start_position = impute_start_position(renamed, i)]
            @@ historical_features(all, renamed[i])
            @@ [rookie_flag |-> rookie_flag(all, renamed[i])]]

\* astype(int) of a practice position that is still missing raises
\* ValueError and nothing is written
clean_pre_qual ==
    /\ pre_qual_df # NoFile
    /\ races_2001 # NoFile
    /\ pre_qual_clean = NoFile
    /\ \E table \in {pre_qual_table(pre_qual_df, races_2001)} :
          IF position_missing(table)
          THEN /\ raised' = "ValueError"
               /\ UNCHANGED pre_qual_clean
          ELSE /\ pre_qual_clean' = table
               /\ raised' = NaText
    /\ UNCHANGED <<runVars, mergeVars, eraVars, sessionVars, id_map_file, cell_texts,
                   col_values, write_outcomes, returned, pre_qual_df,
                   pre_race_df, pre_race_clean>>

\* astype(int) of a practice position or of a qual_position that is still
\* missing raises ValueError and nothing is written
clean_pre_race ==
    /\ pre_race_df # NoFile
    /\ races_2001 # NoFile
    /\ pre_race_clean = NoFile
    /\ \E table \in {pre_race_table(pre_race_df, races_2001)} :
          IF \/ position_missing(table)
             \/ \E i \in 1..Len(table) : isna(table[i].qual_position)
          THEN /\ raised' = "ValueError"
               /\ UNCHANGED pre_race_clean
          ELSE /\ pre_race_clean' = table
               /\ raised' = NaText
    /\ UNCHANGED <<runVars, mergeVars, eraVars, sessionVars, id_map_file, cell_texts,
                   col_values, write_outcomes, returned, pre_qual_df,
                   pre_qual_clean, pre_race_df>>

-----------------------------------------------------------------------------
(* Era reconciliation: clean_results_2001 and clean_results_2018           *)
(* (clean_raw.py), convert_position (project_functions.py).                *)
(*                                                                         *)
(* A text cell of a CSV file is a string; the empty field, which read_csv  *)
(* reads as NaN and to_csv writes for NaN, is the empty string.            *)

digits == <<"0", "1", "2", "3", "4", "5", "6", "7", "8", "9">>

\* str(n), the decimal numeral of n >= 0
RECURSIVE str(_)
str(n) ==
    IF n < 10 THEN digits[n + 1] ELSE str(n \div 10) \o digits[(n % 10) + 1]

\* the largest place a position text is read as
MaxPlace == 16

\* the numerals of the places
numerals == [n \in 0..MaxPlace |-> str(n)]

\* int(text) succeeds: the text is a decimal numeral
is_int(text) == \E n \in 0..MaxPlace : numerals[n] = text

\* int(text), where it does not raise ValueError
int(text) == CHOOSE n \in 0..MaxPlace : numerals[n] = text

\* the fallback without the running place: a non-numeric text stays missing
convert_position_unfilled(row, prev_position) ==
    IF is_int(row.position) THEN Num(int(row.position)) ELSE NA

\* prev_position is NA for None
convert_position(row, prev_position) ==
    IF is_int(row.position) THEN Num(int(row.position))
    ELSE IF notna(prev_position) THEN FAdd(prev_position, Num(1))
         ELSE Num(1)

\* a raw date is the list of its parts around '-', each part read as
\* <<year, month, day>>; a date range keeps the part after the first '-'
to_datetime(date) == IF Len(date) > 1 THEN date[2] ELSE date[1]

DateBefore(a, b) ==
    \/ a[1] < b[1]
    \/ a[1] = b[1] /\ a[2] < b[2]
    \/ a[1] = b[1] /\ a[2] = b[2] /\ a[3] < b[3]

YearDateBefore(a, b) ==
    a.year < b.year \/ (a.year = b.year /\ DateBefore(a.date, b.date))

\* rank(method='dense') of the date among the dates of its year
dense_rank(df, row) ==
    Cardinality({r.date : r \in {q \in {df[k] : k \in 1..Len(df)} :
                                   /\ q.year = row.year
                                   /\ ~DateBefore(row.date, q.date)}})

position_status_2001(text) ==
    IF is_int(text) THEN "CLAS" ELSE IF text = "EX" THEN "DQ" ELSE text

\* converted_positions[k] of the loop over the sorted rows
RECURSIVE converted_positions(_, _)
converted_positions(df, k) ==
    convert_position(df[k], IF k = 1 THEN NA ELSE converted_positions(df, k - 1))

clean_results_2001_table(raw) ==
    LET dated == [i \in 1..Len(raw) |->
                     [driver_id |-> raw[i].driver_id,
                      date |-> to_datetime(raw[i].date),
                      year |-> to_datetime(raw[i].date)[1],
                      position |-> raw[i].position]]
        sorted == SortRows(dated, YearDateBefore)
    IN  [k \in 1..Len(sorted) |->
            [driver_id |-> sorted[k].driver_id,
             date |-> sorted[k].date,
             year |-> sorted[k].year,
             round |-> dense_rank(sorted, sorted[k]),
             position_status |-> position_status_2001(sorted[k].position),
             position |-> converted_positions(sorted, k)]]

clean_results_2001 ==
    /\ races_2001_raw # NoFile
    /\ races_2001 = NoFile
    /\ races_2001' = clean_results_2001_table(races_2001_raw)
    /\ UNCHANGED <<runVars, mergeVars, races_2001_raw, races_2018_raw, races_2018, id_map_styria,
                   id_map_anniversary, sessionVars, finalVars, idVars>>

\* replace({id_map_styria: 10, id_map_anniversary: 9}); of two equal keys of
\* a dict literal the later one stays
replace_circuit_id(circuit_id) ==
    IF <<circuit_id>> = id_map_anniversary THEN 9
    ELSE IF <<circuit_id>> = id_map_styria THEN 10
         ELSE circuit_id

\* current_position when row k is reached, after the reset at a new race
RECURSIVE current_position(_, _)
current_position(df, k) ==
    IF k = 1 \/ df[k].race_url # df[k - 1].race_url THEN 1
    ELSE IF is_int(df[k - 1].end_position)
         THEN int(df[k - 1].end_position) + 1
         ELSE current_position(df, k - 1) + 1

\* the counter running through the whole table, never reset
end_positions_of_table(df, k) ==
    IF is_int(df[k].end_position) THEN int(df[k].end_position)
    ELSE current_position([j \in 1..Len(df) |->
                              [df[j] EXCEPT !.race_url = "race"]], k)

end_positions(df, k) ==
    IF is_int(df[k].end_position) THEN int(df[k].end_position)
    ELSE current_position(df, k)

statuses(pos) ==
    IF is_int(pos) THEN "CLAS"
    ELSE IF pos \in {"NC", "DQ"} THEN pos ELSE "DNF"

\* the entries of constructor_mapping['team_id'] for the teams of the tables
constructor_mapping ==
    [name \in {"Red Bull Racing Honda", "Ferrari"} |->
        IF name = "Ferrari" THEN "Ferrari" ELSE "Red Bull"]

map_team_name(name) ==
    IF name \in DOMAIN constructor_mapping THEN constructor_mapping[name]
    ELSE name

clean_results_2018_table(raw) ==
    [k \in 1..Len(raw) |->
        [raw[k] EXCEPT !.circuit_id = replace_circuit_id(raw[k].circuit_id),
                       !.end_position = Num(end_positions(raw, k)),
                       !.laps_completed = fillna(raw[k].laps_completed, Num(0)),
                       !.team_name = map_team_name(raw[k].team_name)]
        @@ [position_status |-> statuses(raw[k].end_position)]]

\* an unbound global raises NameError before anything is written
clean_results_2018 ==
    /\ races_2018_raw # NoFile
    /\ races_2018 = NoFile
    /\ IF id_map_styria = Unbound \/ id_map_anniversary = Unbound
       THEN /\ raised' = "NameError"
            /\ UNCHANGED races_2018
       ELSE /\ races_2018' = clean_results_2018_table(races_2018_raw)
            /\ raised' = NaText
    /\ UNCHANGED <<runVars, mergeVars, races_2001_raw, races_2001, races_2018_raw, id_map_styria,
                   id_map_anniversary, sessionVars, finalVars, id_map_file,
                   cell_texts, col_values, write_outcomes, returned>>

-----------------------------------------------------------------------------
(* Time texts.  A time text is written from its parts <<minutes, seconds,  *)
(* milliseconds>>; splitting a text at ':' and '.' and reading the pieces   *)
(* with int() or float() gives back the parts whose numerals make it up.   *)

\* the numeral of n, zero-padded to width digits
RECURSIVE pad(_, _)
pad(n, width) ==
    IF Len(str(n)) >= width THEN str(n) ELSE "0" \o pad(n, width - 1)

\* the parts the time texts of the tables are written from
ClockMinutes == {0, 1, 2}

ClockSeconds == {0, 20, 22}

ClockMillis == {0, 500}

ClockParts == ClockMinutes \X ClockSeconds \X ClockMillis

\* "min:sec.millisec"
min_sec_text(p) == str(p[1]) \o ":" \o pad(p[2], 2) \o "." \o pad(p[3], 3)

\* "sec.millisec"
sec_text(p) == str(p[2]) \o "." \o pad(p[3], 3)

\* the texts of the parts, in either form
min_sec_texts == [p \in ClockParts |-> min_sec_text(p)]

sec_texts == [p \in ClockParts |-> sec_text(p)]

has_colon(text) == \E p \in ClockParts : min_sec_texts[p] = text

is_seconds(text) == \E p \in ClockParts : p[1] = 0 /\ sec_texts[p] = text

colon_parts(text) == CHOOSE p \in ClockParts : min_sec_texts[p] = text

seconds_parts(text) == CHOOSE p \in ClockParts : p[1] = 0 /\ sec_texts[p] = text

-----------------------------------------------------------------------------
(* Qualifying: clean_qualifying_2018 (clean_raw.py) and                    *)
(* clean_qualifying_times (project_functions.py).  Times are seconds.      *)

Q2_CUTOFF == 15

Q3_CUTOFF == 10

q_time_cols == {"q1_time", "q2_time", "q3_time"}

\* current_position when row k is reached, after the reset at a new race
RECURSIVE qual_current_position(_, _)
qual_current_position(df, k) ==
    IF k = 1 \/ df[k].race_id # df[k - 1].race_id THEN 1
    ELSE IF is_int(df[k - 1].qual_position)
         THEN int(df[k - 1].qual_position) + 1
         ELSE qual_current_position(df, k - 1) + 1

qual_positions(df, k) ==
    IF is_int(df[k].qual_position) THEN int(df[k].qual_position)
    ELSE qual_current_position(df, k)

\* the texts that stand for no lap; of the texts of the tables x.upper() is x
no_time_texts == {"DNF", "DNS", NaText}

\* float(x) does not raise ValueError
time_parses(x) == x \in no_time_texts \/ has_colon(x) \/ is_seconds(x)

\* the lambda of lines 868-873: seconds of a time text, NA for no lap
time_seconds(x) ==
    IF x \in no_time_texts THEN NA
    ELSE IF has_colon(x)
         THEN LET p == colon_parts(x)
              IN  FAdd(Num(p[1] * 60), Frac(p[2] * 1000 + p[3], 1000))
         ELSE LET p == seconds_parts(x)
              IN  Frac(p[2] * 1000 + p[3], 1000)

QualBefore(a, b) ==
    \/ a.race_id < b.race_id
    \/ a.race_id = b.race_id /\ a.qual_position < b.qual_position

\* a missing maximum stays missing when the penalty is added
plus(x, seconds) == IF isna(x) THEN NA ELSE FAdd(x, Num(seconds))

\* groupby('race_id')[col].transform('max')
max_q_time(df, i, col) ==
    Max(Column(Pick(df, AscSeq({k \in 1..Len(df) : SameRaceId(df[k], df[i])})),
               col))

\* the maximum of the whole column instead of the race
q1_imputed_table_max(df, i) ==
    fillna(df[i].q1_time, plus(Max(Column(df, "q1_time")), 5))

q1_imputed(df, i) ==
    fillna(df[i].q1_time, plus(max_q_time(df, i, "q1_time"), 5))

\* the penalty of 10 seconds whether the driver advanced or not
q_imputed_one_penalty(df, i, col, advanced) ==
    fillna(df[i][col], plus(max_q_time(df, i, col), 10))

q_imputed(df, i, col, advanced) ==
    fillna(df[i][col],
           plus(max_q_time(df, i, col), IF advanced THEN 5 ELSE 10))

clean_qualifying_times(df) ==
    LET sorted == SortRows(df, QualBefore)
        timed  == [i \in 1..Len(sorted) |->
                      [sorted[i] EXCEPT !.q1_time = time_seconds(@),
                                        !.q2_time = time_seconds(@),
                                        !.q3_time = time_seconds(@)]]
    IN  [i \in 1..Len(timed) |->
            LET r == timed[i]
                advanced_to_q2 == r.qual_position <= Q2_CUTOFF
                advanced_to_q3 == r.qual_position <= Q3_CUTOFF
            IN  [race_id |-> r.race_id,
                 driver_id |-> r.driver_id,
                 qual_position |-> r.qual_position,
                 q1_time |-> q1_imputed(timed, i),
                 q2_time |-> q_imputed(timed, i, "q2_time", advanced_to_q2),
                 q3_time |-> q_imputed(timed, i, "q3_time", advanced_to_q3),
                 q1_no_lap_time_flag |-> isna(r.q1_time),
                 q2_no_lap_time_flag |-> advanced_to_q2 /\ isna(r.q2_time),
                 q3_no_lap_time_flag |-> advanced_to_q3 /\ isna(r.q3_time)]]

\* a time text that float() cannot read raises ValueError out of the
\* stage and nothing is written
clean_qualifying_2018 ==
    /\ qualifying # NoFile
    /\ qualifying_cleaned = NoFile
    /\ IF \A k \in 1..Len(qualifying), col \in q_time_cols :
             time_parses(qualifying[k][col])
       THEN /\ qualifying_cleaned' =
                  clean_qualifying_times(
                      [k \in 1..Len(qualifying) |->
                          [qualifying[k] EXCEPT
                              !.qual_position = qual_positions(qualifying, k)]])
            /\ raised' = NaText
       ELSE /\ raised' = "ValueError"
            /\ UNCHANGED qualifying_cleaned
    /\ UNCHANGED <<runVars, mergeVars, eraVars, finalVars, id_map_file, cell_texts,
                   col_values, write_outcomes, returned, practices,
                   practices_aggregated, qualifying>>

-----------------------------------------------------------------------------
(* Practices: clean_practices_2018 (clean_raw.py).  A timedelta is its     *)
(* number of seconds; the wide column <name>_<session> of the aggregated   *)
(* table is the field <name>[session] of a row.                            *)

sessions == {"FP1", "FP2", "FP3"}

session_map(session_type) ==
    CASE session_type = "practice0" -> "FP3"
      [] session_type = "practice1" -> "FP1"
      [] session_type = "practice2" -> "FP2"
      [] session_type = "practice3" -> "FP3"

\* timedelta(minutes=, seconds=, milliseconds=)
timedelta(p) == FAdd(Num(p[1] * 60), Frac(p[2] * 1000 + p[3], 1000))

\* "+<gap>s", the gap to the base time of the session
gap_text(p) ==
    "+" \o (IF p[1] = 0 THEN sec_text(p) ELSE min_sec_text(p)) \o "s"

gap_texts == [p \in ClockParts |-> gap_text(p)]

is_gap(text) == \E p \in ClockParts : gap_texts[p] = text

gap_parts(text) == CHOOSE p \in ClockParts : gap_texts[p] = text

\* a text without '+' in front whose pieces int() reads
is_base(text) == has_colon(text) \/ is_seconds(text)

base_parts(text) ==
    IF has_colon(text) THEN colon_parts(text) ELSE seconds_parts(text)

SameSessionGroup(a, b) ==
    a.race_id = b.race_id /\ a.session_type = b.session_type

\* base_time once row k is done: reset where the group changes, set by a
\* base time that parses
RECURSIVE base_time(_, _)
base_time(df, k) ==
    IF is_base(df[k].lap_time) THEN timedelta(base_parts(df[k].lap_time))
    ELSE IF k = 1 \/ ~SameSessionGroup(df[k], df[k - 1]) THEN NA
         ELSE base_time(df, k - 1)

\* lines 192-251: a text that does not parse, or a gap without a base time,
\* leaves the cell missing
lap_time_clean(df, k) ==
    LET text == df[k].lap_time
    IN  IF is_base(text) THEN base_time(df, k)
        ELSE IF is_gap(text) /\ notna(base_time(df, k))
             THEN FAdd(base_time(df, k), timedelta(gap_parts(text)))
             ELSE NA

\* the column lap_time_clean after the loop of lines 192-251
lap_times_clean(df) == [k \in 1..Len(df) |-> lap_time_clean(df, k)]

\* the last known time of the whole table instead of the group
most_recent_time_of_table(df, clean, k) ==
    LET known == SelectSeqNotNa(clean)
    IN  IF known = <<>> THEN NA ELSE known[Len(known)]

\* group['lap_time_clean'].dropna().iloc[-1] of the group of row k
most_recent_time(df, clean, k) ==
    LET group == AscSeq({j \in 1..Len(df) : SameSessionGroup(df[j], df[k])})
        known == SelectSeqNotNa(Pick(clean, group))
    IN  IF known = <<>> THEN NA ELSE known[Len(known)]

\* the most recent time without the multiplier
imputed_time_unscaled(time) == time

\* most_recent_time * 1.05
imputed_time(time) == Frac(time[1] * 21, time[2] * 20)

\* best_time of the long table, after the imputation of lines 253-265
best_time(df, clean, k) ==
    IF notna(clean[k]) THEN clean[k]
    ELSE LET recent == most_recent_time(df, clean, k)
         IN  IF notna(recent) THEN imputed_time(recent) ELSE NA

\* the long table that is pivoted
practices_long(df) ==
    LET clean == lap_times_clean(df)
    IN  [k \in 1..Len(df) |->
            [race_id |-> df[k].race_id,
             driver_id |-> df[k].driver_id,
             session_type |-> session_map(df[k].session_type),
             best_time |-> best_time(df, clean, k),
             lap_count |-> df[k].lap_count,
             position |-> df[k].position,
             recorded_lap_time |-> df[k].lap_time # NaText]]

pivot_values == {"best_time", "lap_count", "position"}

\* aggfunc='first': the first non-missing cell of the rows of one
\* (race, driver, session), missing when there is none
first(long, race_id, driver_id, session, col) ==
    LET cells == SelectSeqNotNa(
                    [k \in 1..Len(long) |->
                        IF /\ long[k].race_id = race_id
                           /\ long[k].driver_id = driver_id
                           /\ long[k].session_type = session
                        THEN long[k][col] ELSE NA])
    IN  IF cells = <<>> THEN NA ELSE cells[1]

\* recorded_lap_time after fillna(False)
first_recorded(long, race_id, driver_id, session) ==
    LET rows == AscSeq({k \in 1..Len(long) :
                          /\ long[k].race_id = race_id
                          /\ long[k].driver_id = driver_id
                          /\ long[k].session_type = session})
    IN  IF rows = <<>> THEN FALSE ELSE long[rows[1]].recorded_lap_time

\* pivot_table drops a column that is missing in every row
has_column(long, session, col) ==
    \E k \in 1..Len(long) :
        long[k].session_type = session /\ notna(long[k][col])

PivotBefore(a, b) ==
    \/ a.race_id < b.race_id
    \/ a.race_id = b.race_id /\ a.driver_id < b.driver_id

\* one row per (race_id, driver_id), in index order
practices_pivot(long) ==
    LET keys == {[race_id |-> long[k].race_id, driver_id |-> long[k].driver_id] :
                    k \in 1..Len(long)}
        index == [n \in 1..Cardinality(keys) |->
                     CHOOSE r \in keys :
                        Cardinality({q \in keys : PivotBefore(q, r)}) = n - 1]
    IN  [n \in 1..Len(index) |->
            [race_id |-> index[n].race_id,
             driver_id |-> index[n].driver_id,
             best_time |-> [s \in sessions |->
                 first(long, index[n].race_id, index[n].driver_id, s, "best_time")],
             lap_count |-> [s \in sessions |->
                 first(long, index[n].race_id, index[n].driver_id, s, "lap_count")],
             position |-> [s \in sessions |->
                 first(long, index[n].race_id, index[n].driver_id, s, "position")],
             recorded_lap_time |-> [s \in sessions |->
                 first_recorded(long, index[n].race_id, index[n].driver_id, s)]]]

\* the places from 1 on, whatever the largest known place is
impute_position_from_one(wide, n, session) ==
    LET race    == AscSeq({k \in 1..Len(wide) : SameRaceId(wide[k], wide[n])})
        cells   == [k \in 1..Len(race) |-> wide[race[k]].position[session]]
        i       == Cardinality({k \in 1..Len(race) :
                                   race[k] < n /\ isna(cells[k])})
    IN  fillna(wide[n].position[session], Num(i + 1))

\* lines 312-334: the missing positions of a race and session take the
\* places after the largest known one, in row order
impute_position(wide, n, session) ==
    LET race    == AscSeq({k \in 1..Len(wide) : SameRaceId(wide[k], wide[n])})
        cells   == [k \in 1..Len(race) |-> wide[race[k]].position[session]]
        largest == fillna(Max(cells), Num(0))
        i       == Cardinality({k \in 1..Len(race) :
                                   race[k] < n /\ isna(cells[k])})
    IN  fillna(wide[n].position[session], FAdd(largest, Num(i + 1)))

practices_aggregated_table(long) ==
    LET wide == practices_pivot(long)
    IN  [n \in 1..Len(wide) |->
            [race_id |-> wide[n].race_id,
             driver_id |-> wide[n].driver_id,
             best_time |-> [s \in sessions |->
                               fillna(wide[n].best_time[s], Num(0))],
             participated |-> [s \in sessions |-> notna(wide[n].best_time[s])],
             recorded_lap_time |-> wide[n].recorded_lap_time,
             lap_count |-> [s \in sessions |->
                               fillna(wide[n].lap_count[s], Num(0))],
             position |-> [s \in sessions |-> impute_position(wide, n, s)]]]

\* a text of digits with fewer pieces than the loop reads: "1:20", "20"
whole_text(p) == IF p[1] = 0 THEN str(p[2]) ELSE str(p[1]) \o ":" \o pad(p[2], 2)

whole_texts == [p \in ClockParts |-> whole_text(p)]

is_whole(text) == \E p \in ClockParts : whole_texts[p] = text

\* "+20s": a gap of digits without the milliseconds
whole_gap_text(p) == "+" \o whole_text(p) \o "s"

is_whole_gap(text) == \E p \in ClockParts : whole_gap_text(p) = text

\* lines 192-251 catch ValueError and AttributeError only: time_parts[1] or
\* time_parts[2] of a text with too few pieces raises IndexError out of the
\* loop ("" where row k raises nothing)
lap_time_error(df, k) ==
    LET text == df[k].lap_time
    IN  IF is_whole(text) THEN "IndexError"
        ELSE IF /\ is_whole_gap(text)
                /\ k > 1 /\ SameSessionGroup(df[k], df[k - 1])
                /\ notna(base_time(df, k - 1))
             THEN "IndexError"
             ELSE NaText

\* an exception of the loop ends the stage; a wide column that the pivot
\* dropped raises KeyError where it is read; nothing is written then
clean_practices_2018 ==
    /\ practices # NoFile
    /\ practices_aggregated = NoFile
    /\ IF \E k \in 1..Len(practices) : lap_time_error(practices, k) # NaText
       THEN /\ raised' = "IndexError"
            /\ UNCHANGED practices_aggregated
       ELSE \E long \in {practices_long(practices)} :
              IF \A s \in sessions, col \in pivot_values : has_column(long, s, col)
              THEN /\ practices_aggregated' = practices_aggregated_table(long)
                   /\ raised' = NaText
              ELSE /\ raised' = "KeyError"
                   /\ UNCHANGED practices_aggregated
    /\ UNCHANGED <<runVars, mergeVars, eraVars, finalVars, id_map_file, cell_texts,
                   col_values, write_outcomes, returned, practices, qualifying,
                   qualifying_cleaned>>

-----------------------------------------------------------------------------
(* Pit stops: clean_pit_stops_2018 (clean_raw.py) and convert_pit_time     *)
(* (project_functions.py).  Times are seconds.                             *)

\* what convert_pit_time raises on a cell: TypeError for an empty cell
\* (':' in NaN), ValueError for a text that float() cannot read, "" for none
pit_time_error(time_str) ==
    IF time_str = NaText THEN "TypeError"
    ELSE IF has_colon(time_str) \/ is_seconds(time_str) THEN NaText
         ELSE "ValueError"

\* convert_pit_time, where it does not raise
convert_pit_time(time_str) ==
    IF has_colon(time_str)
    THEN LET p == colon_parts(time_str)
         IN  FAdd(Num(p[1] * 60), Frac(p[2] * 1000 + p[3], 1000))
    ELSE LET p == seconds_parts(time_str)
         IN  Frac(p[2] * 1000 + p[3], 1000)

\* -1 * rank(method='dense', ascending=True) of the date of a 2016-2017 row
negative_race_id(df, row) ==
    0 - Cardinality({to_datetime(df[k].date) : k \in
                        {j \in 1..Len(df) :
                            ~DateBefore(to_datetime(row.date),
                                        to_datetime(df[j].date))}})

\* pd.concat([pit_stops, pit_stops_2016]) with the race_id of the old rows
all_pit_stops(stops, stops_2016) ==
    stops \o [k \in 1..Len(stops_2016) |->
                 [race_id |-> negative_race_id(stops_2016, stops_2016[k]),
                  driver_id |-> stops_2016[k].driver_id,
                  team_id |-> stops_2016[k].team_id,
                  stop_number |-> stops_2016[k].stop_number,
                  pits_time |-> stops_2016[k].pits_time]]

\* the stops of at most 120 seconds, with pits_time_seconds
pit_stops_bound(all) ==
    LET timed == [k \in 1..Len(all) |->
                     all[k] @@ [pits_time_seconds |->
                                   convert_pit_time(all[k].pits_time)]]
    IN  Pick(timed, AscSeq({k \in 1..Len(timed) :
                              ~FLess(Num(120), timed[k].pits_time_seconds)}))

\* sort_values(['driver_id', 'race_id', 'stop_number'])
PitBefore(a, b) ==
    \/ a.driver_id < b.driver_id
    \/ a.driver_id = b.driver_id /\ a.race_id < b.race_id
    \/ /\ a.driver_id = b.driver_id /\ a.race_id = b.race_id
       /\ a.stop_number < b.stop_number

\* x.shift(1).rolling(window=w, min_periods=1).mean() within the driver: the
\* mean of the w stops of the driver that precede stop k in the sorted table
avg_pit_time_last(sorted, k, w) ==
    Mean(LastN(Column(Pick(sorted,
                           AscSeq({j \in 1..(k - 1) :
                                      sorted[j].driver_id = sorted[k].driver_id})),
                      "pits_time_seconds"), w))

SamePitGroup(a, b) ==
    a.race_id = b.race_id /\ a.driver_id = b.driver_id /\ a.team_id = b.team_id

\* groupby(['race_id', 'driver_id', 'team_id']): the groups in key order
PitGroupBefore(a, b) ==
    \/ a.race_id < b.race_id
    \/ a.race_id = b.race_id /\ a.driver_id < b.driver_id
    \/ /\ a.race_id = b.race_id /\ a.driver_id = b.driver_id
       /\ a.team_id < b.team_id

\* agg 'last': the last cell of the group that is not missing
last_pit_avg(sorted, row, w) ==
    LET cells == SelectSeqNotNa(
                    [k \in 1..Len(sorted) |->
                        IF SamePitGroup(sorted[k], row)
                        THEN avg_pit_time_last(sorted, k, w) ELSE NA])
    IN  IF cells = <<>> THEN NA ELSE cells[Len(cells)]

\* pit_stops_clean before the imputation
pit_stops_aggregated(all) ==
    LET sorted == SortRows(pit_stops_bound(all), PitBefore)
        firsts == Pick(sorted,
                       AscSeq({k \in 1..Len(sorted) :
                                 \A j \in 1..(k - 1) :
                                    ~SamePitGroup(sorted[j], sorted[k])}))
        groups == SortRows(firsts, PitGroupBefore)
    IN  [g \in 1..Len(groups) |->
            [race_id |-> groups[g].race_id,
             driver_id |-> groups[g].driver_id,
             team_id |-> groups[g].team_id,
             avg_pit_time_last_5 |-> last_pit_avg(sorted, groups[g], 5),
             avg_pit_time_last_10 |-> last_pit_avg(sorted, groups[g], 10)]]

\* impute_pit_times(row, pit_stops_bound) is imported from
\* project_functions.py, which does not define it: the values it may give,
\* none or the mean of the stops of the table
impute_pit_times(row, bound) ==
    {NA} \cup (IF bound = <<>> THEN {}
               ELSE {Mean(Column(bound, "pits_time_seconds"))})

\* drop('team_id') and the rows of the races of 2018 and later
pit_stops_kept(clean) ==
    LET kept == Pick(clean, AscSeq({g \in 1..Len(clean) : clean[g].race_id >= 0}))
    IN  [g \in 1..Len(kept) |->
            [race_id |-> kept[g].race_id,
             driver_id |-> kept[g].driver_id,
             avg_pit_time_last_5 |-> kept[g].avg_pit_time_last_5,
             avg_pit_time_last_10 |-> kept[g].avg_pit_time_last_10]]

\* a cell that convert_pit_time raises on ends the stage
clean_pit_stops_2018 ==
    /\ pit_stops # NoFile /\ pit_stops_2016 # NoFile
    /\ pit_stops_clean = NoFile
    /\ \E all \in {all_pit_stops(pit_stops, pit_stops_2016)} :
         LET errors == {k \in 1..Len(all) : pit_time_error(all[k].pits_time) # NaText}
         IN  IF errors # {}
             THEN /\ raised' = pit_time_error(
                                  all[CHOOSE k \in errors :
                                         \A j \in errors : k <= j].pits_time)
                  /\ UNCHANGED pit_stops_clean
             ELSE \E agg \in {pit_stops_aggregated(all)},
                     fills \in {impute_pit_times(NA, pit_stops_bound(all))} :
                    \E fill5 \in [{g \in 1..Len(agg) :
                                     isna(agg[g].avg_pit_time_last_5)} -> fills],
                       fill10 \in [{g \in 1..Len(agg) :
                                      isna(agg[g].avg_pit_time_last_10)} -> fills] :
                       /\ pit_stops_clean' =
                             pit_stops_kept(
                                [g \in 1..Len(agg) |->
                                    [agg[g] EXCEPT
                                        !.avg_pit_time_last_5 =
                                           IF isna(@) THEN fill5[g] ELSE @,
                                        !.avg_pit_time_last_10 =
                                           IF isna(@) THEN fill10[g] ELSE @]])
                       /\ raised' = NaText
    /\ UNCHANGED <<runVars, eraVars, sessionVars, finalVars, id_map_file, cell_texts,
                   col_values, write_outcomes, returned, rounds, pit_stops,
                   pit_stops_2016, flags, circuits, locations, f1_data_m6>>

-----------------------------------------------------------------------------
(* Flags: clean_flags (clean_raw.py).  A raw race_id cell is a numeral or  *)
(* the text 'unknown'.                                                     *)

\* the probability columns and the count column each is computed from
prob_cols == {"yellow_flag_prob", "double_yellow_prob", "red_flag_prob",
              "safety_car_prob", "vsc_prob"}

count_col(prob) ==
    CASE prob = "yellow_flag_prob" -> "flag_yellow_count"
      [] prob = "double_yellow_prob" -> "flag_double_yellow_count"
      [] prob = "red_flag_prob" -> "flag_red_count"
      [] prob = "safety_car_prob" -> "safety_car_deployments"
      [] prob = "vsc_prob" -> "virtual_safety_car_deployments"

\* the average columns and the column each is the mean of
avg_cols == {"avg_yellow_count", "avg_double_yellow_count", "avg_red_count",
             "avg_safety_car_deployments", "avg_vsc_deployments",
             "avg_sc_laps", "avg_vsc_laps"}

mean_col(avg) ==
    CASE avg = "avg_yellow_count" -> "flag_yellow_count"
      [] avg = "avg_double_yellow_count" -> "flag_double_yellow_count"
      [] avg = "avg_red_count" -> "flag_red_count"
      [] avg = "avg_safety_car_deployments" -> "safety_car_deployments"
      [] avg = "avg_vsc_deployments" -> "virtual_safety_car_deployments"
      [] avg = "avg_sc_laps" -> "total_sc_laps"
      [] avg = "avg_vsc_laps" -> "total_vsc_laps"

\* results.loc[results['circuit_name'] == '70th Anniversary', 'race_id']
races_70th(results) ==
    Column(Pick(results,
                AscSeq({k \in 1..Len(results) :
                          results[k].circuit_name = "70th Anniversary"})),
           "race_id")

\* replace('unknown', race_id_70th), the session filter and astype(int)
flags_of_races(raw, race_id_70th) ==
    LET kept == Pick(raw, AscSeq({k \in 1..Len(raw) : raw[k].session = "Race"}))
    IN  [k \in 1..Len(kept) |->
            [kept[k] EXCEPT !.race_id = IF @ = "unknown" THEN race_id_70th
                                        ELSE int(@)]]

\* results[['race_id', 'circuit_id']].drop_duplicates()
race_circuits(results) ==
    LET pair(k) == [race_id |-> results[k].race_id,
                    circuit_id |-> results[k].circuit_id]
    IN  [n \in 1..Cardinality({pair(k) : k \in 1..Len(results)}) |->
            pair(CHOOSE k \in 1..Len(results) :
                    /\ \A j \in 1..(k - 1) : pair(j) # pair(k)
                    /\ Cardinality({pair(j) : j \in 1..k}) = n)]

\* merge(results, on='race_id', how='inner') from row k of the flags on
RECURSIVE inner_merge_from(_, _, _)
inner_merge_from(left, right, k) ==
    IF k > Len(left) THEN <<>>
    ELSE LET hits == AscSeq({j \in 1..Len(right) :
                               right[j].race_id = left[k].race_id})
         IN  [n \in 1..Len(hits) |->
                 left[k] @@ [circuit_id |-> right[hits[n]].circuit_id]]
             \o inner_merge_from(left, right, k + 1)

RaceIdBefore(a, b) == a.race_id < b.race_id

\* flags_sorted
flags_sorted_of(raw, results, race_id_70th) ==
    SortRows(inner_merge_from(flags_of_races(raw, race_id_70th),
                              race_circuits(results), 1),
             RaceIdBefore)

\* the rows of the circuit up to and including the race
historical_data_with_race(flags_sorted, circuit_id, race_id) ==
    Pick(flags_sorted,
         AscSeq({k \in 1..Len(flags_sorted) :
                   /\ flags_sorted[k].circuit_id = circuit_id
                   /\ flags_sorted[k].race_id <= race_id}))

\* circuit_data[circuit_data['race_id'] < race_id]
historical_data(flags_sorted, circuit_id, race_id) ==
    Pick(flags_sorted,
         AscSeq({k \in 1..Len(flags_sorted) :
                   /\ flags_sorted[k].circuit_id = circuit_id
                   /\ flags_sorted[k].race_id < race_id}))

\* the number of rows with a count above 0
positive_rows(data, col) == Cardinality({k \in 1..Len(data) : data[k][col] > 0})

\* the Bayesian smoothing parameter k
smoothing_k == 1

\* (races + k) / (total_races + 2*k), None for a first race
smoothed_prob(data, col) ==
    IF Len(data) = 0 THEN NA
    ELSE Frac(positive_rows(data, col) + smoothing_k,
              Len(data) + 2 * smoothing_k)

\* historical_data[col].mean(), None for a first race
historical_mean(data, col) ==
    IF Len(data) = 0 THEN NA
    ELSE Mean([k \in 1..Len(data) |-> Num(data[k][col])])

\* (flags_sorted[col] > 0).mean() and flags_sorted[col].mean()
global_prob(flags_sorted, col) ==
    IF Len(flags_sorted) = 0 THEN NA
    ELSE Frac(positive_rows(flags_sorted, col), Len(flags_sorted))

global_mean(flags_sorted, col) ==
    Mean([k \in 1..Len(flags_sorted) |-> Num(flags_sorted[k][col])])

\* the (circuit, race) pairs in the order of the two loops: the circuits
\* in the order of their first race, the races of a circuit by race_id
StatBefore(flags_sorted, a, b) ==
    LET first_race(c) ==
            CHOOSE r \in {flags_sorted[k].race_id : k \in 1..Len(flags_sorted)} :
                /\ \E k \in 1..Len(flags_sorted) :
                      /\ flags_sorted[k].race_id = r
                      /\ flags_sorted[k].circuit_id = c
                /\ \A k \in 1..Len(flags_sorted) :
                      flags_sorted[k].circuit_id = c =>
                          r <= flags_sorted[k].race_id
    IN  \/ first_race(a.circuit_id) < first_race(b.circuit_id)
        \/ /\ first_race(a.circuit_id) = first_race(b.circuit_id)
           /\ a.circuit_id < b.circuit_id
        \/ a.circuit_id = b.circuit_id /\ a.race_id < b.race_id

\* circuit_flag_stats after the fill with the global stats
circuit_flag_stats(flags_sorted) ==
    LET pairs == {[race_id |-> flags_sorted[k].race_id,
                   circuit_id |-> flags_sorted[k].circuit_id] :
                  k \in 1..Len(flags_sorted)}
    IN  [n \in 1..Cardinality(pairs) |->
            LET p == CHOOSE q \in pairs :
                        Cardinality({x \in pairs : StatBefore(flags_sorted, x, q)})
                            = n - 1
                hist == historical_data(flags_sorted, p.circuit_id, p.race_id)
            IN  p @@ [c \in prob_cols |->
                         fillna(smoothed_prob(hist, count_col(c)),
                                global_prob(flags_sorted, count_col(c)))]
                  @@ [c \in avg_cols |->
                         fillna(historical_mean(hist, mean_col(c)),
                                global_mean(flags_sorted, mean_col(c)))]]

\* .iloc[0] of an empty selection raises IndexError and nothing is written
clean_flags ==
    /\ flags_raw # NoFile /\ races_2018 # NoFile
    /\ flags = NoFile
    /\ IF races_70th(races_2018) = <<>>
       THEN /\ raised' = "IndexError"
            /\ UNCHANGED flags
       ELSE /\ flags' = circuit_flag_stats(
                           flags_sorted_of(flags_raw, races_2018,
                                           races_70th(races_2018)[1]))
            /\ raised' = NaText
    /\ UNCHANGED <<eraVars, sessionVars, finalVars, id_map_file, cell_texts,
                   col_values, write_outcomes, returned, rounds, pit_stops,
                   pit_stops_2016, pit_stops_clean, circuits, locations,
                   f1_data_m6, runVars>>

-----------------------------------------------------------------------------
(* Identity resolution: the id column step of scrape_url_table (utils.py,  *)
(* data_functions.py) with load_id_map and save_id_map.  A label is the    *)
(* sequence of its characters; a dict is the sequence of its items         *)
(* [key, id] in insertion order.  The column that is modelled has no entry *)
(* in id_mask.                                                             *)

\* a file that pickle cannot read back, and a file that cannot be opened
Corrupt == <<[corrupt |-> TRUE]>>

Unreadable == <<[unreadable |-> TRUE]>>

\* an exception that leaves a function instead of a value
Raise(exception) == <<[raised |-> exception]>>

is_raise(x) == x # <<>> /\ "raised" \in DOMAIN x[1]

exception(x) == x[1].raised

\* load_id_map: the pickled object; {} or the default when the file does not
\* exist; pickle.load and open raise on a file they cannot read
load_id_map(file, default) ==
    IF file = NoFile THEN fillna(default, <<>>)
    ELSE IF file = Corrupt THEN Raise("UnpicklingError")
         ELSE IF file = Unreadable THEN Raise("PermissionError")
              ELSE file

\* what an attempt to write meets: the next of write_outcomes, "ok" after them
next_outcome(outcomes) == IF outcomes = <<>> THEN "ok" ELSE Head(outcomes)

later_outcomes(outcomes) == IF outcomes = <<>> THEN <<>> ELSE Tail(outcomes)

\* for attempt in range(max_retries), from the given attempt on: the file
\* afterwards, the outcomes left, the direct and temporary-file attempts
\* made, and the exception raised ("" for a normal return)
RECURSIVE save_attempts(_, _, _, _, _)
save_attempts(file, id_map, max_retries, attempt, outcomes) ==
    IF attempt >= max_retries
    THEN [file |-> file, outcomes |-> outcomes, attempts |-> attempt,
          temp_attempts |-> 0, raised |-> NaText]
    ELSE IF next_outcome(outcomes) = "ok"
    THEN [file |-> id_map, outcomes |-> later_outcomes(outcomes),
          attempts |-> attempt + 1, temp_attempts |-> 0, raised |-> NaText]
    ELSE IF next_outcome(outcomes) = "PermissionError"
    THEN IF attempt < max_retries - 1
         THEN save_attempts(file, id_map, max_retries, attempt + 1,
                            later_outcomes(outcomes))
         ELSE LET final == next_outcome(later_outcomes(outcomes))
              IN  [file |-> IF final = "ok" THEN id_map ELSE file,
                   outcomes |-> later_outcomes(later_outcomes(outcomes)),
                   attempts |-> attempt + 1, temp_attempts |-> 1,
                   raised |-> IF final = "ok" THEN NaText ELSE final]
    ELSE [file |-> file, outcomes |-> later_outcomes(outcomes),
          attempts |-> attempt + 1, temp_attempts |-> 0,
          raised |-> next_outcome(outcomes)]

save_id_map(file, id_map, max_retries, outcomes) ==
    save_attempts(file, id_map, max_retries, 0, outcomes)

\* max_retries: int = 3
default_max_retries == 3

has_key(id_map, key) == \E k \in 1..Len(id_map) : id_map[k].key = key

get(id_map, key) ==
    id_map[CHOOSE k \in 1..Len(id_map) : id_map[k].key = key].id

\* id_map[key] = id for a key of the dict: the item keeps its place
setitem(id_map, key, id) ==
    [k \in 1..Len(id_map) |->
        IF id_map[k].key = key THEN [key |-> key, id |-> id] ELSE id_map[k]]

\* scraped_value in existing_key: the value occurs in the key
in_text(value, text) ==
    \E i \in 0..(Len(text) - Len(value)) :
        SubSeq(text, i + 1, i + Len(value)) = value

\* the first key, in the order of the dict, that the value occurs in
matched_key(id_map, scraped_value) ==
    LET hits == {k \in 1..Len(id_map) : in_text(scraped_value, id_map[k].key)}
    IN  IF hits = {} THEN NA
        ELSE id_map[CHOOSE k \in hits : \A j \in hits : k <= j].key

lookup_key(id_map, scraped_value) ==
    fillna(matched_key(id_map, scraped_value), scraped_value)

RECURSIVE max_id(_)
max_id(id_map) ==
    IF Len(id_map) = 1 THEN id_map[1].id
    ELSE LET m == max_id(Tail(id_map))
         IN  IF id_map[1].id < m THEN m ELSE id_map[1].id

new_id_of_max(id_map) == IF id_map = <<>> THEN 1 ELSE max_id(id_map)

new_id(id_map) == IF id_map = <<>> THEN 1 ELSE max_id(id_map) + 1

\* the cells of a column without the n cells from the given one on
without(cells, from, n) ==
    SubSeq(cells, 1, from - 1) \o SubSeq(cells, from + n, Len(cells))

\* the step for the next cell of the column: the value appended to
\* col_info['values'] is NA for None, else <<id>>.  An exception of
\* load_id_map or save_id_map is caught by the try of the page (URL): the
\* rows of the page that follow the cell are skipped, and a new identifier
\* is appended before the map is saved.
resolve_id ==
    /\ Len(col_values) < Len(cell_texts)
    /\ \E id_map \in {load_id_map(id_map_file, NA)},
          skipped \in 0..(Len(cell_texts) - Len(col_values) - 1) :
         IF is_raise(id_map)
         THEN /\ raised' = exception(id_map)
              /\ cell_texts' =
                    without(cell_texts, Len(col_values) + 1, 1 + skipped)
              /\ UNCHANGED <<id_map_file, col_values, write_outcomes>>
         ELSE LET scraped_value == cell_texts[Len(col_values) + 1]
                  key == lookup_key(id_map, scraped_value)
                  saved == save_id_map(id_map_file,
                                       Append(id_map, [key |-> key,
                                                       id |-> new_id(id_map)]),
                                       default_max_retries, write_outcomes)
              IN  IF isna(scraped_value)
                  THEN /\ skipped = 0
                       /\ col_values' = Append(col_values, NA)
                       /\ raised' = NaText
                       /\ UNCHANGED <<id_map_file, write_outcomes, cell_texts>>
                  ELSE IF has_key(id_map, key)
                  THEN /\ skipped = 0
                       /\ col_values' = Append(col_values, <<get(id_map, key)>>)
                       /\ raised' = NaText
                       /\ UNCHANGED <<id_map_file, write_outcomes, cell_texts>>
                  ELSE /\ saved.raised = NaText => skipped = 0
                       /\ col_values' = Append(col_values, <<new_id(id_map)>>)
                       /\ id_map_file' = saved.file
                       /\ write_outcomes' = saved.outcomes
                       /\ raised' = saved.raised
                       /\ cell_texts' =
                             without(cell_texts, Len(col_values) + 2, skipped)
    /\ UNCHANGED <<runVars, mergeVars, eraVars, sessionVars, finalVars, returned>>

Austria == <<"A", "u", "s", "t", "r", "i", "a">>

Styria == <<"S", "t", "y", "r", "i", "a">>

GreatBritain ==
    <<"G", "r", "e", "a", "t", " ", "B", "r", "i", "t", "a", "i", "n">>

Anniversary ==
    <<"7", "0", "t", "h", " ", "A", "n", "n", "i", "v", "e", "r", "s", "a",
      "r", "y">>

\* the two reassignments of clean_id_map, each made when both labels are keys
merged_styria_reversed(id_map) ==
    IF has_key(id_map, Styria) /\ has_key(id_map, Austria)
    THEN setitem(id_map, Austria, get(id_map, Styria)) ELSE id_map

merged_styria(id_map) ==
    IF has_key(id_map, Styria) /\ has_key(id_map, Austria)
    THEN setitem(id_map, Styria, get(id_map, Austria)) ELSE id_map

merged_anniversary(id_map) ==
    IF has_key(id_map, Anniversary) /\ has_key(id_map, GreatBritain)
    THEN setitem(id_map, Anniversary, get(id_map, GreatBritain)) ELSE id_map

\* clean_id_map: the globals are assigned before the map is saved; an
\* exception ends the run of clean_all
clean_id_map ==
    /\ \E id_map \in {load_id_map(id_map_file, NA)} :
         IF is_raise(id_map)
         THEN /\ raised' = exception(id_map)
              /\ UNCHANGED <<id_map_file, write_outcomes, id_map_styria,
                             id_map_anniversary>>
         ELSE LET saved == save_id_map(id_map_file,
                                       merged_anniversary(merged_styria(id_map)),
                                       default_max_retries, write_outcomes)
              IN  /\ id_map_styria' =
                        IF has_key(id_map, Styria) /\ has_key(id_map, Austria)
                        THEN <<get(id_map, Styria)>> ELSE id_map_styria
                  /\ id_map_anniversary' =
                        IF /\ has_key(id_map, Anniversary)
                           /\ has_key(id_map, GreatBritain)
                        THEN <<get(id_map, Anniversary)>>
                        ELSE id_map_anniversary
                  /\ id_map_file' = saved.file
                  /\ write_outcomes' = saved.outcomes
                  /\ raised' = saved.raised
    /\ UNCHANGED <<runVars, mergeVars, races_2001_raw, races_2001, races_2018_raw, races_2018,
                   sessionVars, finalVars, cell_texts, col_values, returned>>

\* a direct call load_id_map(path, default)
call_load_id_map(default) ==
    /\ returned = NA
    /\ returned' = <<[call |-> "load_id_map", default |-> default,
                      value |-> load_id_map(id_map_file, default)]>>
    /\ UNCHANGED <<runVars, mergeVars, eraVars, sessionVars, finalVars, id_map_file, cell_texts,
                   col_values, write_outcomes, raised>>

\* a direct call save_id_map(path, id_map, max_retries)
call_save_id_map(id_map, max_retries) ==
    /\ returned = NA
    /\ \E saved \in {save_id_map(id_map_file, id_map, max_retries,
                                 write_outcomes)} :
          /\ id_map_file' = saved.file
          /\ write_outcomes' = saved.outcomes
          /\ returned' = <<[call |-> "save_id_map", id_map |-> id_map,
                            max_retries |-> max_retries,
                            attempts |-> saved.attempts,
                            temp_attempts |-> saved.temp_attempts,
                            raised |-> saved.raised]>>
    /\ UNCHANGED <<runVars, mergeVars, eraVars, sessionVars, finalVars, cell_texts, col_values,
                   raised>>

-----------------------------------------------------------------------------
(* Neutral merges (merge.py).  A text cell of a key column that a merge    *)
(* may leave empty is the tuple <<text>>.                                  *)

\* the cells of a row in the columns that are merged on
key_of(row, on) == [i \in 1..Len(on) |-> row[on[i]]]

columns(df) == IF df = <<>> THEN {} ELSE DOMAIN df[1]

\* the rows that a left merge makes of one row of the left table: one for
\* every row of the right table with the same key, in the order of the right
\* table; one with empty cells when there is none
merged_rows(row, right, on) ==
    LET hits  == AscSeq({k \in 1..Len(right) :
                            key_of(right[k], on) = key_of(row, on)})
        added == columns(right) \ {on[i] : i \in 1..Len(on)}
    IN  IF hits = <<>> THEN <<row @@ [c \in added |-> NA]>>
        ELSE [j \in 1..Len(hits) |-> row @@ [c \in added |-> right[hits[j]][c]]]

RECURSIVE merge_from(_, _, _, _)
merge_from(left, right, on, k) ==
    IF k > Len(left) THEN <<>>
    ELSE merged_rows(left[k], right, on) \o merge_from(left, right, on, k + 1)

\* left.merge(right, on=on, how='left')
merge(left, right, on) == merge_from(left, right, on, 1)

\* every file is read before the first merge; none of the merges checks
\* the number of rows it yields
neutral_merge ==
    /\ races_2018 # NoFile /\ races_2001 # NoFile
    /\ practices_aggregated # NoFile /\ pit_stops_clean # NoFile
    /\ flags # NoFile /\ circuits # NoFile /\ locations # NoFile
    /\ rounds # NoFile
    /\ f1_data_m6 = NoFile
    /\ LET f1_data_m1 == merge(races_2018, rounds, <<"race_url">>)
           f1_data_m2 == merge(f1_data_m1, practices_aggregated,
                               <<"race_id", "driver_id">>)
           f1_data_m3 == merge(f1_data_m2, pit_stops_clean,
                               <<"race_id", "driver_id">>)
           f1_data_m4 == merge(f1_data_m3, flags, <<"race_id", "circuit_id">>)
           f1_data_m5 == merge(f1_data_m4, circuits, <<"circuit_id">>)
       IN  f1_data_m6' = merge(f1_data_m5, locations, <<"name">>)
    /\ UNCHANGED <<runVars, eraVars, sessionVars, finalVars, idVars, rounds, pit_stops,
                   pit_stops_2016, pit_stops_clean, flags, circuits,
                   locations>>

-----------------------------------------------------------------------------
(* The run of all stages: clean_all (clean_all.py).  A stage is called     *)
(* when the one before it has returned; an exception of a stage is not     *)
(* caught and ends the run.                                                *)

\* the calls with clean_results_2018 ahead of clean_id_map
stages_results_first ==
    <<"clean_results_2018", "clean_results_2001", "clean_id_map",
      "clean_practices_2018", "clean_qualifying_2018",
      "clean_starting_grid_2018", "clean_pit_stops_2018", "clean_laps",
      "clean_weather", "clean_flags", "clean_circuits", "clean_locations",
      "neutral_merge", "pre_qual_merge", "pre_race_merge">>

\* the calls of clean_all in program order
stages ==
    <<"clean_id_map", "clean_results_2001", "clean_results_2018",
      "clean_practices_2018", "clean_qualifying_2018",
      "clean_starting_grid_2018", "clean_pit_stops_2018", "clean_laps",
      "clean_weather", "clean_flags", "clean_circuits", "clean_locations",
      "neutral_merge", "pre_qual_merge", "pre_race_merge">>

\* the files a stage writes, in the order of its writes; the globals that
\* clean_id_map binds are listed as "id_map globals"
outputs(name) ==
    CASE name = "clean_id_map" -> <<"circuit_id_map.pkl", "id_map globals">>
      [] name = "clean_results_2001" -> <<"race_results_clean_2001-2017.csv">>
      [] name = "clean_results_2018" -> <<"race_results_clean_2018+.csv">>
      [] name = "clean_practices_2018" -> <<"practice_results_clean.csv">>
      [] name = "clean_qualifying_2018" -> <<"qualifying_results_clean.csv">>
      [] name = "clean_starting_grid_2018" -> <<"starting_grid_clean.csv">>
      [] name = "clean_pit_stops_2018" -> <<"pit_stops_clean.csv">>
      [] name = "clean_laps" -> <<"laps_clean.csv">>
      [] name = "clean_weather" ->
            <<"laps_clean.csv", "weather_qualifying_clean.csv">>
      [] name = "clean_flags" -> <<"flags_clean.csv">>
      [] name = "clean_circuits" -> <<"circuits_clean.csv">>
      [] name = "clean_locations" -> <<"locations_clean.csv">>
      [] name = "neutral_merge" -> <<"f1_data_neutral_merges.csv">>
      [] name = "pre_qual_merge" -> <<"f1_data_pre_qual_raw.csv">>
      [] name = "pre_race_merge" -> <<"f1_data_pre_race_raw.csv">>

\* the files of data/clean and the globals that a stage reads
inputs(name) ==
    CASE name = "clean_results_2018" -> {"id_map globals"}
      [] name \in {"clean_laps", "clean_weather", "clean_flags"} ->
            {"race_results_clean_2018+.csv"}
      [] name = "neutral_merge" ->
            {"race_results_clean_2018+.csv", "race_results_clean_2001-2017.csv",
             "practice_results_clean.csv", "pit_stops_clean.csv",
             "flags_clean.csv", "circuits_clean.csv", "locations_clean.csv"}
      [] name \in {"pre_qual_merge", "pre_race_merge"} ->
            {"f1_data_neutral_merges.csv"}
      [] OTHER -> {}

\* the exceptions that end a stage
stage_errors ==
    {"FileNotFoundError", "KeyError", "ValueError", "IndexError", "NameError"}

\* the files after the first k writes of the stage name
written(name, k) ==
    {x \in files : \A n \in 1..k : x[1] # outputs(name)[n]}
    \cup {<<outputs(name)[n], name>> : n \in 1..k}

\* clean_all calls its next stage
call_stage ==
    /\ ~in_stage /\ raised = NaText
    /\ stage < Len(stages)
    /\ stage' = stage + 1
    /\ in_stage' = TRUE
    /\ UNCHANGED <<eraVars, sessionVars, finalVars, idVars, mergeVars,
                   flags_raw, files, done>>

\* the running stage writes its files and returns
return_stage ==
    /\ in_stage
    /\ in_stage' = FALSE
    /\ files' = written(stages[stage], Len(outputs(stages[stage])))
    /\ done' = done \cup {stages[stage]}
    /\ UNCHANGED <<eraVars, sessionVars, finalVars, idVars, mergeVars,
                   flags_raw, stage>>

\* the running stage raises, before a write or between two writes; the
\* exception leaves clean_all
raise_stage ==
    /\ in_stage
    /\ in_stage' = FALSE
    /\ \E e \in stage_errors : raised' = e
    /\ \E k \in 0..(Len(outputs(stages[stage])) - 1) :
          files' = written(stages[stage], k)
    /\ UNCHANGED <<eraVars, sessionVars, finalVars, id_map_file, cell_texts,
                   col_values, write_outcomes, returned, mergeVars,
                   flags_raw, stage, done>>

-----------------------------------------------------------------------------
(* Result histories the feature engine is run on                           *)

\* the largest number of result rows in the combined history
MaxRows == 4

\* the last season of the older era and the first season of the newer one
LastOldYear == 2017

FirstNewYear == 2018

Drivers == {1, 2}

Rounds == {1, 2}

\* finishing positions: a win, a podium, and a place off the podium
Positions == {1, 3, 4}

\* both drivers in one team, or one driver per team
TeamMaps == {[d \in Drivers |-> 1], [d \in Drivers |-> d]}

\* the entries a history is drawn from: driver 1 has raced since the older
\* era, driver 2 made their debut in the newer era
Slots == ({1} \X {LastOldYear, FirstNewYear} \X Rounds)
         \cup ({2} \X {FirstNewYear} \X Rounds)

\* points of a classified finish (2010+ scale)
PointsOf(position) ==
    CASE position = 1 -> 25 [] position = 2 -> 18 [] position = 3 -> 15
      [] position = 4 -> 12 [] OTHER -> 0

RaceIdOf(year, round) == (year - FirstNewYear) * Cardinality(Rounds) + round

\* the rows of a result table are listed race by race, in finishing order
ResultBefore(a, b) ==
    \/ a.year < b.year
    \/ a.year = b.year /\ a.round_number < b.round_number
    \/ a.year = b.year /\ a.round_number = b.round_number
       /\ a.end_position < b.end_position

\* the result rows of the entries keys with finishing positions pos
ResultRows(keys, pos, team_of) ==
    LET row_set == {[driver_id |-> k[1], year |-> k[2], round_number |-> k[3],
                     race_id |-> RaceIdOf(k[2], k[3]),
                     team_id |-> team_of[k[1]],
                     end_position |-> pos[k],
                     position_status |-> IF pos[k] = 4 THEN "DNF" ELSE "CLAS",
                     points |-> IF pos[k] = 4 THEN 0 ELSE PointsOf(pos[k])] :
                    k \in keys}
    IN  [n \in 1..Cardinality(row_set) |->
            CHOOSE r \in row_set :
                Cardinality({q \in row_set : ResultBefore(q, r)}) = n - 1]

\* no two entries of a race share a finishing position
DistinctInRace(keys, pos) ==
    \A a, b \in keys :
        (a # b /\ a[2] = b[2] /\ a[3] = b[3]) => pos[a] # pos[b]

\* the older-era rows as clean_results_2001 leaves them
OldEraRow(row) ==
    [driver_id |-> row.driver_id, year |-> row.year, round |-> row.round_number,
     position |-> row.end_position, position_status |-> row.position_status,
     points |-> row.points, team_id |-> row.team_id]

\* the columns of the intermediate tables that the merges add to a result row
\* the practice columns of a row that the merge matched; the aggregated
\* practice table has no missing cell
MatchedPractice(position, time) ==
    [participated_FP |-> [n \in session_nums |-> <<TRUE>>],
     lap_count_FP |-> [n \in session_nums |-> Num(20)],
     recorded_lap_time_FP |-> [n \in session_nums |-> <<TRUE>>],
     position_FP |-> [n \in session_nums |-> Num(position)],
     best_time_FP |-> [n \in session_nums |-> FAdd(time, Num(n))]]

\* the practice columns of a row without a row in the aggregated table
UnmatchedPractice ==
    [participated_FP |-> [n \in session_nums |-> NA],
     lap_count_FP |-> [n \in session_nums |-> NA],
     recorded_lap_time_FP |-> [n \in session_nums |-> NA],
     position_FP |-> [n \in session_nums |-> NA],
     best_time_FP |-> [n \in session_nums |-> NA]]

PreQualRow(row, pit5, pit10) ==
    row @@ [avg_pit_time_last_5 |-> pit5, avg_pit_time_last_10 |-> pit10]
    @@ MatchedPractice(row.driver_id, Num(80))

\* the qualifying columns of a row that the merge matched: the times of the
\* three sessions from the Q1 time q1, the flag of a time that was missing
\* in the raw table and is imputed in qualifying_cleaned.csv
MatchedQual(position, q1, no_lap) ==
    [qual_position |-> Num(position),
     q1_time |-> q1,
     q2_time |-> FAdd(q1, Num(1)),
     q3_time |-> FAdd(q1, Num(2)),
     q1_no_lap_time_flag |-> <<no_lap>>,
     q2_no_lap_time_flag |-> <<no_lap>>,
     q3_no_lap_time_flag |-> <<no_lap>>]

\* the qualifying columns of a row without a row in qualifying_cleaned.csv
UnmatchedQual ==
    [qual_position |-> NA, q1_time |-> NA, q2_time |-> NA, q3_time |-> NA,
     q1_no_lap_time_flag |-> NA, q2_no_lap_time_flag |-> NA,
     q3_no_lap_time_flag |-> NA]

PreRaceRow(row, pit5, pit10, start_position) ==
    PreQualRow(row, pit5, pit10) @@ [start_position |-> start_position]
    @@ MatchedQual(row.driver_id, Num(80), FALSE)

IsOld(row) == row.year <= LastOldYear

IsNew(row) == row.year >= FirstNewYear

OldRows(rows) == Pick(rows, AscSeq({k \in 1..Len(rows) : IsOld(rows[k])}))

NewRows(rows) == Pick(rows, AscSeq({k \in 1..Len(rows) : IsNew(rows[k])}))

\* the tables that play no part in a run
IdleRaw ==
    /\ races_2001_raw = NoFile /\ races_2018_raw = NoFile
    /\ races_2018 = NoFile
    /\ id_map_styria = Unbound /\ id_map_anniversary = Unbound

IdleSessions ==
    /\ practices = NoFile /\ practices_aggregated = NoFile
    /\ qualifying = NoFile /\ qualifying_cleaned = NoFile

\* no run of clean_all, no raw flag table
IdleRun ==
    /\ flags_raw = NoFile
    /\ stage = 0 /\ in_stage = FALSE /\ files = {} /\ done = {}

IdleMerge ==
    /\ rounds = NoFile /\ pit_stops = NoFile /\ pit_stops_2016 = NoFile
    /\ pit_stops_clean = NoFile /\ flags = NoFile /\ circuits = NoFile
    /\ locations = NoFile /\ f1_data_m6 = NoFile
    /\ IdleRun

IdleIds ==
    /\ id_map_file = NoFile /\ cell_texts = <<>> /\ col_values = <<>>
    /\ write_outcomes = <<>> /\ returned = NA /\ raised = NaText

InitHist ==
    \E team_of \in TeamMaps, keys \in SUBSET Slots :
        /\ Cardinality(keys) \in 1..MaxRows
        /\ \E k \in keys : k[2] = FirstNewYear
        /\ \A d \in Drivers : team_of[d] # 1 => \E k \in keys : k[1] = d
        /\ \E pos \in [keys -> Positions] :
              /\ DistinctInRace(keys, pos)
              /\ LET rows == ResultRows(keys, pos, team_of)
                     new  == NewRows(rows)
                     old  == OldRows(rows)
                 IN  /\ races_2001 = [k \in 1..Len(old) |-> OldEraRow(old[k])]
                     /\ pre_qual_df = [k \in 1..Len(new) |->
                                          PreQualRow(new[k], Num(25), Num(25))]
                     /\ pre_race_df = [k \in 1..Len(new) |->
                                          PreRaceRow(new[k], Num(25), Num(25),
                                                     Num(new[k].end_position))]
        /\ pre_qual_clean = NoFile
        /\ pre_race_clean = NoFile
        /\ IdleRaw /\ IdleSessions /\ IdleIds /\ IdleMerge

NextHist == clean_pre_qual \/ clean_pre_race

SpecHist == InitHist /\ [][NextHist]_vars

-----------------------------------------------------------------------------
(* Tables the imputer is run on                                            *)

\* the largest number of rows of an intermediate table with missing cells
MaxImputeRows == 4

ImputeDrivers == {1, 2, 3}

\* drivers 1 and 2 are teammates, driver 3 drives for another team
ImputeTeamOf == [d \in ImputeDrivers |-> IF d = 3 THEN 2 ELSE 1]

\* three race weekends; the second driver of each team misses the third
ImputeSlots == {<<1, FirstNewYear, 1>>, <<1, FirstNewYear, 2>>,
                <<1, FirstNewYear, 3>>, <<2, FirstNewYear, 1>>,
                <<2, FirstNewYear, 2>>, <<3, FirstNewYear, 1>>,
                <<3, FirstNewYear, 2>>}

\* the pit-stop averages a row can come with (seconds), or none
PitTimes == {NA, Num(20), Num(30)}

\* the trailing-10 average that comes with a trailing-5 average: the two
\* columns are missing in different rows
PitTwin(pit5) ==
    IF isna(pit5) THEN Num(22) ELSE IF pit5 = Num(20) THEN NA ELSE Num(40)

\* every entry finishes in the place of its driver number
DriverOrder(keys) == [k \in keys |-> k[1]]

InitPit ==
    \E keys \in SUBSET ImputeSlots :
        /\ Cardinality(keys) \in 1..MaxImputeRows
        /\ \E pit \in [keys -> PitTimes] :
              LET rows == ResultRows(keys, DriverOrder(keys), ImputeTeamOf)
                  key(r) == <<r.driver_id, r.year, r.round_number>>
              IN  /\ pre_qual_df = [k \in 1..Len(rows) |->
                        PreQualRow(rows[k], pit[key(rows[k])],
                                   PitTwin(pit[key(rows[k])]))]
                  /\ pre_race_df = [k \in 1..Len(rows) |->
                        PreRaceRow(rows[k], pit[key(rows[k])],
                                   PitTwin(pit[key(rows[k])]),
                                   Num(rows[k].end_position))]
        /\ races_2001 = <<>>
        /\ pre_qual_clean = NoFile
        /\ pre_race_clean = NoFile
        /\ IdleRaw /\ IdleSessions /\ IdleIds /\ IdleMerge

SpecPit == InitPit /\ [][NextHist]_vars

\* the largest number of rows of an intermediate table whose practice
\* columns have missing cells
MaxPostRows == 3

\* a row the merge matched, placed low or high in the sessions, or a row
\* without a row in the aggregated practice table
PracticeKinds == {"none", "low", "high"}

PracticeOf(kind, driver) ==
    CASE kind = "none" -> UnmatchedPractice
      [] kind = "low" -> MatchedPractice(driver, Num(80 + driver))
      [] kind = "high" -> MatchedPractice(driver + 3, Num(90 - driver))

InitPost ==
    \E keys \in SUBSET ImputeSlots :
        /\ Cardinality(keys) \in 1..MaxPostRows
        /\ \E kind \in [keys -> PracticeKinds] :
              LET rows == ResultRows(keys, DriverOrder(keys), ImputeTeamOf)
                  key(r) == <<r.driver_id, r.year, r.round_number>>
              IN  /\ pre_qual_df = [k \in 1..Len(rows) |->
                        PracticeOf(kind[key(rows[k])], rows[k].driver_id)
                        @@ PreQualRow(rows[k], Num(25), Num(25))]
                  /\ pre_race_df = [k \in 1..Len(rows) |->
                        PracticeOf(kind[key(rows[k])], rows[k].driver_id)
                        @@ PreRaceRow(rows[k], Num(25), Num(25),
                                      Num(rows[k].end_position))]
        /\ races_2001 = <<>>
        /\ pre_qual_clean = NoFile
        /\ pre_race_clean = NoFile
        /\ IdleRaw /\ IdleSessions /\ IdleIds /\ IdleMerge

SpecPost == InitPost /\ [][NextHist]_vars

\* the grid places a row can come with, or none
GridPlaces == {NA, Num(1), Num(2), Num(3)}

InitGrid ==
    \E keys \in SUBSET ImputeSlots :
        /\ Cardinality(keys) \in 1..MaxImputeRows
        /\ \E grid \in [keys -> GridPlaces] :
              /\ \A a, b \in keys :
                    (a # b /\ a[3] = b[3] /\ notna(grid[a])) => grid[a] # grid[b]
              /\ LET rows == ResultRows(keys, DriverOrder(keys), ImputeTeamOf)
                     key(r) == <<r.driver_id, r.year, r.round_number>>
                 IN  pre_race_df = [k \in 1..Len(rows) |->
                        PreRaceRow(rows[k], Num(25), Num(25), grid[key(rows[k])])]
        /\ races_2001 = <<>>
        /\ pre_qual_df = NoFile
        /\ pre_qual_clean = NoFile
        /\ pre_race_clean = NoFile
        /\ IdleRaw /\ IdleSessions /\ IdleIds /\ IdleMerge

SpecGrid == InitGrid /\ [][clean_pre_race]_vars

-----------------------------------------------------------------------------
(* Raw result tables the era reconciliation is run on                      *)

\* the largest number of rows of a raw result table
MaxEraRows == 3

\* two race weekends of one season and one of the next; a weekend is a
\* single date or a date range
OldDates ==
    << <<<<LastOldYear - 1, 3, 20>>>>,
       <<<<LastOldYear - 1, 4, 1>>, <<LastOldYear - 1, 4, 3>>>>,
       <<<<LastOldYear, 3, 24>>, <<LastOldYear, 3, 26>>>> >>

\* position texts of the older era: places, finish reasons, an empty field
OldTexts == {"1", "2", "DNF", "NC", "EX", "DNS", NaText}

\* position texts of the newer era
NewTexts == {"1", "2", "NC", "DQ", "DNF", "DNS", NaText}

\* the rows of a race are adjacent in a raw table
Adjacent(race_of) ==
    \A i, j, k \in DOMAIN race_of :
        (i < j /\ j < k /\ race_of[i] = race_of[k]) => race_of[j] = race_of[i]

\* no two rows of a race carry the same place
DistinctPlaces(race_of, text) ==
    \A i, j \in DOMAIN race_of :
        (i # j /\ race_of[i] = race_of[j] /\ is_int(text[i])) => text[i] # text[j]

\* the number of the row i among the rows of its race
EntryOf(race_of, i) == Cardinality({j \in 1..i : race_of[j] = race_of[i]})

RawRow2001(race_of, text, i) ==
    [driver_id |-> EntryOf(race_of, i),
     date |-> OldDates[race_of[i]],
     position |-> text[i]]

\* circuit 11 is the one recorded for Styria, 12 the one for the 70th
\* Anniversary race
StyriaId == 11

AnniversaryId == 12

RawRow2018(race_of, text, i) ==
    [race_url |-> "race-" \o str(race_of[i]),
     race_id |-> race_of[i],
     driver_id |-> EntryOf(race_of, i),
     circuit_id |-> IF race_of[i] = 1 THEN StyriaId ELSE race_of[i],
     team_name |-> IF EntryOf(race_of, i) = 1 THEN "Red Bull Racing Honda"
                   ELSE "Andretti",
     end_position |-> text[i],
     laps_completed |-> IF text[i] \in {"DNS", NaText} THEN NA ELSE Num(50)]

IdleFinal ==
    /\ pre_qual_df = NoFile /\ pre_qual_clean = NoFile
    /\ pre_race_df = NoFile /\ pre_race_clean = NoFile

InitEra2001 ==
    /\ \E n \in 1..MaxEraRows :
         \E race_of \in [1..n -> DOMAIN OldDates], text \in [1..n -> OldTexts] :
            /\ Adjacent(race_of)
            /\ DistinctPlaces(race_of, text)
            /\ races_2001_raw = [i \in 1..n |-> RawRow2001(race_of, text, i)]
    /\ races_2001 = NoFile
    /\ races_2018_raw = NoFile /\ races_2018 = NoFile
    /\ id_map_styria = Unbound /\ id_map_anniversary = Unbound
    /\ IdleSessions /\ IdleFinal /\ IdleIds /\ IdleMerge

InitEra2018 ==
    /\ \E n \in 1..MaxEraRows :
         \E race_of \in [1..n -> 1..2], text \in [1..n -> NewTexts] :
            /\ Adjacent(race_of)
            /\ DistinctPlaces(race_of, text)
            /\ races_2018_raw = [i \in 1..n |-> RawRow2018(race_of, text, i)]
    /\ races_2018 = NoFile
    /\ races_2001_raw = NoFile /\ races_2001 = NoFile
    /\ id_map_styria = <<StyriaId>> /\ id_map_anniversary = <<AnniversaryId>>
    /\ IdleSessions /\ IdleFinal /\ IdleIds /\ IdleMerge

InitEra == InitEra2001 \/ InitEra2018

NextEra == clean_results_2001 \/ clean_results_2018

SpecEra == InitEra /\ [][NextEra]_vars

-----------------------------------------------------------------------------
(* Raw qualifying tables                                                   *)

\* the largest number of rows of a raw qualifying table
MaxQualRows == 3

\* the Q1 cells of a raw table: two lap times, no lap, an empty field
Q1Texts == {min_sec_text(<<1, 20, 0>>), min_sec_text(<<1, 22, 0>>),
            "DNF", "DNS", NaText}

\* the Q2 cell that comes with a Q1 cell: half a second slower, or no lap
Q2Twin(q1) ==
    IF has_colon(q1)
    THEN LET p == colon_parts(q1) IN min_sec_text(<<p[1], p[2], 500>>)
    ELSE IF q1 = "DNF" THEN "DNF" ELSE NaText

RawQualRow(race_of, q1, i) ==
    [race_id |-> race_of[i],
     driver_id |-> EntryOf(race_of, i),
     qual_position |-> IF q1[i] = "DNS" THEN "NC" ELSE str(EntryOf(race_of, i)),
     q1_time |-> q1[i],
     q2_time |-> Q2Twin(q1[i]),
     q3_time |-> IF EntryOf(race_of, i) = 1 THEN Q2Twin(q1[i]) ELSE NaText]

InitQual ==
    /\ \E n \in 1..MaxQualRows :
         \E race_of \in [1..n -> 1..2], q1 \in [1..n -> Q1Texts] :
            /\ Adjacent(race_of)
            /\ qualifying = [i \in 1..n |-> RawQualRow(race_of, q1, i)]
    /\ qualifying_cleaned = NoFile
    /\ practices = NoFile /\ practices_aggregated = NoFile
    /\ races_2001 = NoFile
    /\ IdleRaw /\ IdleFinal /\ IdleIds /\ IdleMerge

SpecQual == InitQual /\ [][clean_qualifying_2018]_vars

-----------------------------------------------------------------------------
(* Raw practice tables                                                     *)

\* the largest number of rows of a raw practice table
MaxPracticeRows == 4

\* <<race, practice number, driver>>: a weekend with three practice
\* sessions and a weekend with the single session numbered 0
PracticeSlots == ({1} \X {1, 2} \X {1, 2}) \cup {<<1, 3, 1>>}
                 \cup ({2} \X {0} \X {1, 2})

\* the lap_time cells of a raw table: a base time, a gap to it, an empty
\* field, a text that is no time
LapTexts == {min_sec_text(<<1, 20, 0>>), gap_text(<<0, 0, 500>>), NaText, "DNF"}

\* rows are listed race by race, session by session, driver by driver
SlotBefore(a, b) ==
    \/ a[1] < b[1]
    \/ a[1] = b[1] /\ a[2] < b[2]
    \/ a[1] = b[1] /\ a[2] = b[2] /\ a[3] < b[3]

RawPracticeRow(slot, text) ==
    [race_id |-> slot[1],
     session_type |-> "practice" \o str(slot[2]),
     driver_id |-> slot[3],
     lap_time |-> text,
     position |-> Num(slot[3]),
     lap_count |-> IF text = NaText THEN Num(0) ELSE Num(20)]

InitPractice ==
    /\ \E keys \in SUBSET PracticeSlots :
          /\ Cardinality(keys) \in 1..MaxPracticeRows
          /\ \E text \in [keys -> LapTexts] :
                practices =
                    [n \in 1..Cardinality(keys) |->
                        LET slot == CHOOSE r \in keys :
                                Cardinality({q \in keys : SlotBefore(q, r)}) = n - 1
                        IN  RawPracticeRow(slot, text[slot])]
    /\ practices_aggregated = NoFile
    /\ qualifying = NoFile /\ qualifying_cleaned = NoFile
    /\ races_2001 = NoFile
    /\ IdleRaw /\ IdleFinal /\ IdleIds /\ IdleMerge

SpecPractice == InitPractice /\ [][clean_practices_2018]_vars

\* the largest number of drivers in the first practice session of a weekend
MaxLapDrivers == 3

\* a weekend with the three practice sessions: the drivers of the first
\* session, and one driver in the second and in the third, classified
\* first or fourth in the second; after it, a weekend with the single
\* session numbered 0 for up to two drivers
InitLapTimes ==
    /\ \E n \in 1..MaxLapDrivers, place \in {1, 4}, sprint \in 0..2 :
          \E text \in [1..n -> LapTexts],
             later \in [{2, 3} -> {min_sec_text(<<1, 20, 0>>), NaText}] :
              practices =
                  [d \in 1..n |-> RawPracticeRow(<<1, 1, d>>, text[d])]
                  \o <<[RawPracticeRow(<<1, 2, 1>>, later[2])
                           EXCEPT !.position = Num(place)],
                       RawPracticeRow(<<1, 3, 1>>, later[3])>>
                  \o [d \in 1..sprint |->
                         RawPracticeRow(<<2, 0, d>>, min_sec_text(<<1, 20, 0>>))]
    /\ practices_aggregated = NoFile
    /\ qualifying = NoFile /\ qualifying_cleaned = NoFile
    /\ races_2001 = NoFile
    /\ IdleRaw /\ IdleFinal /\ IdleIds /\ IdleMerge

SpecLapTimes == InitLapTimes /\ [][clean_practices_2018]_vars

-----------------------------------------------------------------------------
(* Scraped columns the identity resolution is run on                       *)

\* the largest number of cells of a scraped id column
MaxCells == 3

Mexico == <<"M", "e", "x", "i", "c", "o">>

MexicoCity == Mexico \o <<" ", "C", "i", "t", "y">>

\* the texts of a cell: a label, or None for a cell that could not be read
CellTexts == {Mexico, MexicoCity, Austria, Styria, NA}

\* a scrape in which every write succeeds
InitId ==
    /\ \E n \in 1..MaxCells : cell_texts \in [1..n -> CellTexts]
    /\ col_values = <<>>
    /\ id_map_file = NoFile
    /\ write_outcomes = <<>> /\ returned = NA /\ raised = NaText
    /\ races_2001 = NoFile
    /\ IdleRaw /\ IdleSessions /\ IdleFinal /\ IdleMerge

SpecId == InitId /\ [][resolve_id]_vars

-----------------------------------------------------------------------------
(* The circuit map over scrapes and cleanings                              *)

\* the number of writes of a run whose outcome is drawn
MaxMapWrites == 2

WriteOutcomes == {"ok", "PermissionError", "OSError"}

\* the circuit labels of a scraped column
CircuitTexts == CellTexts \cup {GreatBritain, Anniversary}

\* the cells of the circuit column of the pages scraped, the map not yet
\* written; clean_id_map runs between and after the scrapes
InitMap ==
    /\ cell_texts \in [1..MaxCells -> CircuitTexts]
    /\ col_values = <<>>
    /\ id_map_file = NoFile
    /\ write_outcomes \in [1..MaxMapWrites -> WriteOutcomes]
    /\ returned = NA /\ raised = NaText
    /\ races_2001 = NoFile
    /\ IdleRaw /\ IdleSessions /\ IdleFinal /\ IdleMerge

NextMap == resolve_id \/ clean_id_map

SpecMap == InitMap /\ [][NextMap]_vars

\* the largest number of rows of a raw result table that is remapped
MaxRemapRows == 3

\* the circuit maps as the scrapes leave them: the identifiers that
\* clean_results_2018 writes for Austria and Great Britain, other
\* identifiers, and a map without the label Styria
ScrapedMaps ==
    {<<[key |-> GreatBritain, id |-> 9], [key |-> Austria, id |-> 10],
       [key |-> Styria, id |-> StyriaId],
       [key |-> Anniversary, id |-> AnniversaryId]>>,
     <<[key |-> Austria, id |-> 1], [key |-> Styria, id |-> 2],
       [key |-> GreatBritain, id |-> 3], [key |-> Anniversary, id |-> 4]>>,
     <<[key |-> GreatBritain, id |-> 9], [key |-> Austria, id |-> 10],
       [key |-> Anniversary, id |-> AnniversaryId]>>}

\* a result row of its own race at the circuit label, scraped with the
\* identifier that the map gave the label
RemapRow(id_map, label, n, i) ==
    [RawRow2018([j \in 1..n |-> j], [j \in 1..n |-> "1"], i)
        EXCEPT !.circuit_id = get(id_map, label[i])]
    @@ [circuit_name |-> label[i]]

\* a process in which no global is bound yet: the first run over the map of
\* the scrapes, or a later run over the map that an earlier run merged
InitRemap ==
    /\ \E scraped \in ScrapedMaps, n \in 1..MaxRemapRows :
          /\ id_map_file \in {scraped, merged_anniversary(merged_styria(scraped))}
          /\ \E label \in [1..n -> {scraped[k].key : k \in 1..Len(scraped)}] :
                races_2018_raw = [i \in 1..n |-> RemapRow(scraped, label, n, i)]
    /\ races_2018 = NoFile
    /\ races_2001_raw = NoFile /\ races_2001 = NoFile
    /\ id_map_styria = Unbound /\ id_map_anniversary = Unbound
    /\ cell_texts = <<>> /\ col_values = <<>>
    /\ write_outcomes = <<>> /\ returned = NA /\ raised = NaText
    /\ IdleSessions /\ IdleFinal /\ IdleMerge

NextRemap == clean_id_map \/ clean_results_2018

SpecRemap == InitRemap /\ [][NextRemap]_vars

-----------------------------------------------------------------------------
(* Direct calls of load_id_map and save_id_map                             *)

\* the largest max_retries of a call, and the number of outcomes drawn
MaxRetries == 2

MaxWrites == 3

\* the dicts that are saved, loaded and given as default
SmallMaps ==
    {<<>>, <<[key |-> Austria, id |-> 1]>>,
     <<[key |-> Austria, id |-> 1], [key |-> Styria, id |-> 2]>>}

InitFile ==
    /\ id_map_file \in SmallMaps \cup {NoFile, Corrupt, Unreadable}
    /\ write_outcomes \in [1..MaxWrites -> WriteOutcomes]
    /\ cell_texts = <<>> /\ col_values = <<>>
    /\ returned = NA /\ raised = NaText
    /\ races_2001 = NoFile
    /\ IdleRaw /\ IdleSessions /\ IdleFinal /\ IdleMerge

NextFile ==
    \/ \E default \in SmallMaps : call_load_id_map(default)
    \/ \E id_map \in SmallMaps, max_retries \in 0..MaxRetries :
          call_save_id_map(id_map, max_retries)

SpecFile == InitFile /\ [][NextFile]_vars

-----------------------------------------------------------------------------
(* Cleaned tables the neutral merges are run on                            *)

\* the largest number of rows of the results table and of rounds_raw.csv
MaxMergeRows == 3

MaxRounds == 3

\* (race, driver) of a row of the results
MergeSlots == (1..2) \X (1..2)

\* the slots in the order of the results table: race by race
SlotSeq(keys) ==
    LET codes == AscSeq({10 * x[1] + x[2] : x \in keys})
    IN  [k \in 1..Len(codes) |-> <<codes[k] \div 10, codes[k] % 10>>]

race_url_of(race_id) == "race-" \o str(race_id)

\* the races are run on circuits 1 and 2; circuit 2 has no row in
\* circuits_clean.csv
ResultRow(slot) ==
    [race_url |-> race_url_of(slot[1]), race_id |-> slot[1],
     driver_id |-> slot[2], circuit_id |-> slot[1]]

\* rounds_raw.csv: the links scraped, in the order they were appended, with
\* the round numbers given to them; get_links_2018 appends every link anew
\* to an existing file when links_2018+.pkl is missing
RoundsRows(urls) ==
    [k \in 1..Len(urls) |-> [race_url |-> urls[k], round_number |-> k]]

InitMerge ==
    /\ \E keys \in SUBSET MergeSlots :
          /\ Cardinality(keys) \in 1..MaxMergeRows
          /\ races_2018 = [k \in 1..Cardinality(keys) |->
                              ResultRow(SlotSeq(keys)[k])]
    /\ \E n \in 1..MaxRounds :
          \E urls \in [1..n -> {race_url_of(1), race_url_of(2)}] :
             rounds = RoundsRows(urls)
    /\ races_2001 = <<>>
    /\ practices_aggregated =
          <<[race_id |-> 1, driver_id |-> 1,
             best_time |-> [s \in sessions |-> Num(80)]]>>
    /\ pit_stops_clean =
          <<[race_id |-> 1, driver_id |-> 1, avg_pit_time_last_5 |-> Num(25),
             avg_pit_time_last_10 |-> Num(25)]>>
    /\ flags = <<[race_id |-> 1, circuit_id |-> 1, yellow_flag_prob |-> Num(1)]>>
    /\ circuits = <<[circuit_id |-> 1, name |-> <<"Red Bull Ring">>,
                     length |-> 4318]>>
    /\ locations = <<[name |-> <<"Red Bull Ring">>, elevation |-> 678]>>
    /\ f1_data_m6 = NoFile
    /\ pit_stops = NoFile /\ pit_stops_2016 = NoFile
    /\ races_2001_raw = NoFile /\ races_2018_raw = NoFile
    /\ id_map_styria = Unbound /\ id_map_anniversary = Unbound
    /\ practices = NoFile /\ qualifying = NoFile /\ qualifying_cleaned = NoFile
    /\ IdleFinal /\ IdleIds /\ IdleRun

SpecMerge == InitMerge /\ [][neutral_merge]_vars

-----------------------------------------------------------------------------
(* Raw pit stop tables                                                     *)

\* the largest number of rows of pit_stop_results_raw.csv
MaxPitRows == 3

\* <<race, driver, stop number>> of a stop of 2018 and later
PitSlots == (1..2) \X (1..2) \X (1..2)

\* the pits_time cells: two stops, a stop of more than 120 seconds
PitTexts == {sec_text(<<0, 20, 0>>), sec_text(<<0, 22, 0>>),
             min_sec_text(<<2, 0, 500>>)}

RawPitRow(slot, text) ==
    [race_id |-> slot[1],
     driver_id |-> slot[2],
     team_id |-> 1,
     stop_number |-> slot[3],
     pits_time |-> text]

\* a table of the stops keys, race by race, with the cells text
RawPitRows(keys, text) ==
    [n \in 1..Cardinality(keys) |->
        LET slot == CHOOSE r \in keys :
                Cardinality({q \in keys : SlotBefore(q, r)}) = n - 1
        IN  RawPitRow(slot, text[slot])]

\* the stops of a race are numbered from 1
NumberedStops(keys) ==
    \A k \in keys : k[3] > 1 => <<k[1], k[2], k[3] - 1>> \in keys

\* pit_stop_results_raw_2016-2017.csv: no stop, or one stop of driver 1
RawOldPitTables(texts) ==
    {<<>>} \cup
    {<<[date |-> OldDates[1], driver_id |-> 1, team_id |-> 1,
        stop_number |-> 1, pits_time |-> text]>> : text \in texts}

IdlePits ==
    /\ rounds = NoFile /\ flags = NoFile /\ circuits = NoFile
    /\ locations = NoFile /\ f1_data_m6 = NoFile
    /\ IdleRun

InitPitTables(texts) ==
    /\ \E keys \in SUBSET PitSlots :
          /\ Cardinality(keys) \in 1..MaxPitRows
          /\ NumberedStops(keys)
          /\ \E text \in [keys -> texts] : pit_stops = RawPitRows(keys, text)
    /\ pit_stops_2016 \in RawOldPitTables(texts)
    /\ pit_stops_clean = NoFile
    /\ IdlePits

InitPitStops ==
    /\ InitPitTables(PitTexts)
    /\ IdleSessions
    /\ races_2001 = NoFile
    /\ IdleRaw /\ IdleFinal /\ IdleIds

SpecPitStops == InitPitStops /\ [][clean_pit_stops_2018]_vars

-----------------------------------------------------------------------------
(* Raw tables with cells that are no times                                 *)

\* the largest number of rows of a raw table with such cells
MaxParseRows == 2

\* a lap time, no lap, a disqualification
ParseQualTexts == {min_sec_text(<<1, 20, 0>>), "DNF", "DSQ"}

\* a lap time, a gap, a text that is no time, times without milliseconds
ParseLapTexts == {min_sec_text(<<1, 20, 0>>), gap_text(<<0, 0, 500>>), "DNF",
                  whole_text(<<1, 20, 0>>), whole_gap_text(<<0, 20, 0>>)}

\* a stop, an empty field, a text that is no time
ParsePitTexts == {sec_text(<<0, 20, 0>>), NaText, "-"}

\* one raw table of the three stages
InitParse ==
    /\ \/ /\ \E n \in 1..MaxParseRows :
               \E race_of \in [1..n -> 1..2], q1 \in [1..n -> ParseQualTexts] :
                  /\ Adjacent(race_of)
                  /\ qualifying = [i \in 1..n |-> RawQualRow(race_of, q1, i)]
          /\ qualifying_cleaned = NoFile
          /\ practices = NoFile /\ practices_aggregated = NoFile
          /\ IdleMerge
       \/ /\ \E keys \in SUBSET PracticeSlots :
               /\ Cardinality(keys) \in 1..MaxParseRows
               /\ \E text \in [keys -> ParseLapTexts] :
                     practices =
                         [n \in 1..Cardinality(keys) |->
                             LET slot == CHOOSE r \in keys :
                                     Cardinality({q \in keys : SlotBefore(q, r)}) = n - 1
                             IN  RawPracticeRow(slot, text[slot])]
          /\ practices_aggregated = NoFile
          /\ qualifying = NoFile /\ qualifying_cleaned = NoFile
          /\ IdleMerge
       \/ /\ \E keys \in SUBSET PitSlots :
               /\ Cardinality(keys) \in 1..MaxParseRows
               /\ NumberedStops(keys)
               /\ \E text \in [keys -> ParsePitTexts] :
                     pit_stops = RawPitRows(keys, text)
          /\ pit_stops_2016 \in RawOldPitTables(ParsePitTexts)
          /\ pit_stops_clean = NoFile
          /\ IdlePits
          /\ IdleSessions
    /\ races_2001 = NoFile
    /\ IdleRaw /\ IdleFinal /\ IdleIds

NextParse ==
    \/ clean_qualifying_2018
    \/ clean_practices_2018
    \/ clean_pit_stops_2018

SpecParse == InitParse /\ [][NextParse]_vars

-----------------------------------------------------------------------------
(* Intermediate pre-race tables with qualifying columns                    *)

\* the largest number of rows of such a table
MaxFlagRows == 3

\* a driver with a time, a driver whose time was missing in the raw table,
\* a driver without a qualifying row
QualKinds == {"time", "no lap", "no row"}

QualOf(kind, position) ==
    CASE kind = "time" -> MatchedQual(position, Num(80), FALSE)
      [] kind = "no lap" -> MatchedQual(position, Num(85), TRUE)
      [] kind = "no row" -> UnmatchedQual

InitFlags ==
    \E keys \in SUBSET ImputeSlots :
        /\ Cardinality(keys) \in 1..MaxFlagRows
        /\ \E kind \in [keys -> QualKinds] :
              LET rows == ResultRows(keys, DriverOrder(keys), ImputeTeamOf)
                  key(r) == <<r.driver_id, r.year, r.round_number>>
              IN  pre_race_df = [k \in 1..Len(rows) |->
                     QualOf(kind[key(rows[k])], rows[k].driver_id)
                     @@ PreRaceRow(rows[k], Num(25), Num(25),
                                   Num(rows[k].driver_id))]
        /\ races_2001 = <<>>
        /\ pre_qual_df = NoFile
        /\ pre_qual_clean = NoFile
        /\ pre_race_clean = NoFile
        /\ IdleRaw /\ IdleSessions /\ IdleIds /\ IdleMerge

SpecFlags == InitFlags /\ [][clean_pre_race]_vars

-----------------------------------------------------------------------------
(* Raw qualifying tables with drivers eliminated in Q1 and Q2              *)

\* the largest number of rows of such a table
MaxPenaltyRows == 3

\* <<race, qualifying position>>: two drivers of Q3, one eliminated in Q2,
\* one eliminated in Q1
PenaltySlots == (1..2) \X {1, 2, 11, 16}

\* the Q2 and Q3 cells of a driver who was in the session
PenaltyTexts == {min_sec_text(<<1, 20, 500>>), min_sec_text(<<1, 22, 0>>),
                 NaText}

PenaltyQualRow(slot, q2, q3) ==
    [race_id |-> slot[1],
     driver_id |-> slot[2],
     qual_position |-> str(slot[2]),
     q1_time |-> min_sec_text(<<1, 20, 0>>),
     q2_time |-> q2,
     q3_time |-> q3]

PenaltyBefore(a, b) == a[1] < b[1] \/ (a[1] = b[1] /\ a[2] < b[2])

InitPenaltyQual ==
    /\ \E keys \in SUBSET PenaltySlots :
          /\ Cardinality(keys) \in 1..MaxPenaltyRows
          /\ \E q2, q3 \in [keys -> PenaltyTexts] :
                /\ \A k \in keys : k[2] > Q2_CUTOFF => q2[k] = NaText
                /\ \A k \in keys : k[2] > Q3_CUTOFF => q3[k] = NaText
                /\ qualifying =
                      [n \in 1..Cardinality(keys) |->
                          LET slot == CHOOSE r \in keys :
                                  Cardinality({q \in keys : PenaltyBefore(q, r)})
                                      = n - 1
                          IN  PenaltyQualRow(slot, q2[slot], q3[slot])]
    /\ qualifying_cleaned = NoFile
    /\ practices = NoFile /\ practices_aggregated = NoFile
    /\ races_2001 = NoFile
    /\ IdleRaw /\ IdleFinal /\ IdleIds /\ IdleMerge

InitPenalty == InitPenaltyQual \/ InitFlags

NextPenalty == clean_qualifying_2018 \/ clean_pre_race

SpecPenalty == InitPenalty /\ [][NextPenalty]_vars

-----------------------------------------------------------------------------
(* Raw flag tables                                                         *)

\* the largest number of rows of flag_results_raw.csv
MaxFlagRawRows == 3

\* the circuit of each race: races 1 and 3 at Silverstone (race 3 is the
\* 70th Anniversary race, its clean circuit id is 9), races 2 and 4 at
\* another circuit
FlagRaces == 1..4

CircuitOfRace(r) == IF r \in {1, 3} THEN 9 ELSE 5

\* <<race, session>> of a raw row
FlagSlots == FlagRaces \X {"Race", "Qualifying"}

\* the counts of yellow flags and the safety car deployments of a session
FlagCounts == {0, 2} \X {0, 1}

RawFlagRow(slot, counts) ==
    [race_id |-> IF slot[1] = 3 THEN "unknown" ELSE str(slot[1]),
     session |-> slot[2],
     flag_yellow_count |-> counts[1],
     flag_double_yellow_count |-> 0,
     flag_red_count |-> 0,
     safety_car_deployments |-> counts[2],
     virtual_safety_car_deployments |-> 0,
     total_sc_laps |-> counts[2] * 3,
     total_vsc_laps |-> 0]

FlagSlotBefore(a, b) ==
    a[1] < b[1] \/ (a[1] = b[1] /\ a[2] = "Qualifying" /\ b[2] = "Race")

\* a result row of the race, as far as clean_flags reads it
FlagResultRow(r) ==
    [race_id |-> r, circuit_id |-> CircuitOfRace(r),
     circuit_name |-> IF r = 3 THEN "70th Anniversary"
                      ELSE IF r = 1 THEN "Great Britain" ELSE "Spain",
     driver_id |-> 1]

InitFlagStats ==
    /\ \E keys \in SUBSET FlagSlots :
          /\ Cardinality(keys) \in 1..MaxFlagRawRows
          /\ \E counts \in [keys -> FlagCounts] :
                flags_raw =
                    [n \in 1..Cardinality(keys) |->
                        LET slot == CHOOSE r \in keys :
                                Cardinality({q \in keys : FlagSlotBefore(q, r)})
                                    = n - 1
                        IN  RawFlagRow(slot, counts[slot])]
    /\ \E held \in {FlagRaces, FlagRaces \ {3}} :
          races_2018 = [n \in 1..Cardinality(held) |->
                           FlagResultRow(CHOOSE r \in held :
                                            Cardinality({q \in held : q < r})
                                                = n - 1)]
    /\ flags = NoFile
    /\ stage = 0 /\ in_stage = FALSE /\ files = {} /\ done = {}
    /\ rounds = NoFile /\ pit_stops = NoFile /\ pit_stops_2016 = NoFile
    /\ pit_stops_clean = NoFile /\ circuits = NoFile
    /\ locations = NoFile /\ f1_data_m6 = NoFile
    /\ races_2001_raw = NoFile /\ races_2001 = NoFile /\ races_2018_raw = NoFile
    /\ id_map_styria = Unbound /\ id_map_anniversary = Unbound
    /\ IdleSessions /\ IdleFinal /\ IdleIds

SpecFlagStats == InitFlagStats /\ [][clean_flags]_vars

-----------------------------------------------------------------------------
(* Runs of clean_all                                                       *)

\* the files a run that came to its end leaves
RECURSIVE FilesAfter(_)
FilesAfter(n) ==
    IF n = 0 THEN {}
    ELSE {x \in FilesAfter(n - 1) :
             \A k \in 1..Len(outputs(stages[n])) : x[1] # outputs(stages[n])[k]}
         \cup {<<outputs(stages[n])[k], stages[n]>> :
                  k \in 1..Len(outputs(stages[n]))}

\* a first run, or a run over the files that an earlier run left, complete
\* or ended by an exception
InitAll ==
    /\ stage = 0 /\ in_stage = FALSE /\ done = {}
    /\ \E n \in {0, 3, Len(stages)} : files = FilesAfter(n)
    /\ flags_raw = NoFile /\ flags = NoFile
    /\ rounds = NoFile /\ pit_stops = NoFile /\ pit_stops_2016 = NoFile
    /\ pit_stops_clean = NoFile /\ circuits = NoFile
    /\ locations = NoFile /\ f1_data_m6 = NoFile
    /\ races_2001 = NoFile
    /\ IdleRaw /\ IdleSessions /\ IdleFinal /\ IdleIds

NextAll == call_stage \/ return_stage \/ raise_stage

SpecAll == InitAll /\ [][NextAll]_vars

-----------------------------------------------------------------------------
(* Properties of the historical features                                   *)

\* the final tables written so far, each with the intermediate table it was
\* computed from
FinalTables ==
    {t \in {<<pre_qual_df, pre_qual_clean>>, <<pre_race_df, pre_race_clean>>} :
        t[2] # NoFile}

\* (year, round) of a is lexicographically less than that of b
RaceBefore(a, b) == a.year < b.year \/ (a.year = b.year /\ a.round < b.round)

SameRace(a, b) == a.year = b.year /\ a.round = b.round

\* the combined history a final table was computed from: both eras
History(df) ==
    {HistCols(races_2001[k]) : k \in 1..Len(races_2001)}
    \cup {HistCols(Renamed(df[k])) : k \in 1..Len(df)}

\* the driver's races strictly before the race of row r
PriorRaces(df, r) ==
    {h \in History(df) : h.driver_id = r.driver_id /\ RaceBefore(h, r)}

RECURSIVE SumPoints(_)
SumPoints(S) ==
    IF S = {} THEN 0
    ELSE LET h == CHOOSE x \in S : TRUE IN h.points + SumPoints(S \ {h})

\* the historical feature values of a final row
Features(r) ==
    [cumulative_races |-> r.cumulative_races,
     cumulative_wins |-> r.cumulative_wins,
     cumulative_podiums |-> r.cumulative_podiums,
     cumulative_points |-> r.cumulative_points,
     avg_finish_last |-> r.avg_finish_last,
     rate |-> r.rate]

\* row k of the intermediate table with another race outcome
WithOutcome(df, k, position) ==
    [df EXCEPT ![k].end_position = position,
               ![k].position_status = IF position = 4 THEN "DNF" ELSE "CLAS",
               ![k].points = IF position = 4 THEN 0 ELSE PointsOf(position)]

\* the outcomes row k could have had instead: another position, not taken by
\* another entry of the same race
OtherOutcomes(df, k) ==
    {p \in Positions :
        \A j \in 1..Len(df) : df[j].race_id = df[k].race_id => df[j].end_position # p}

\* C1: no leakage in the historical features: changing the outcome of a race
\* at or after (Y, R), of the same or of another driver, leaves the feature
\* values of every row of race (Y, R) unchanged in both final tables
C1_NoLeakage ==
    /\ pre_qual_clean # NoFile =>
          \A k \in 1..Len(pre_qual_df) : \A p \in OtherOutcomes(pre_qual_df, k) :
              LET changed == pre_qual_table(WithOutcome(pre_qual_df, k, p), races_2001)
              IN  \A i \in 1..Len(pre_qual_clean) :
                      ~RaceBefore(pre_qual_clean[k], pre_qual_clean[i])
                          => Features(changed[i]) = Features(pre_qual_clean[i])
    /\ pre_race_clean # NoFile =>
          \A k \in 1..Len(pre_race_df) : \A p \in OtherOutcomes(pre_race_df, k) :
              LET changed == pre_race_table(WithOutcome(pre_race_df, k, p), races_2001)
              IN  \A i \in 1..Len(pre_race_clean) :
                      ~RaceBefore(pre_race_clean[k], pre_race_clean[i])
                          => Features(changed[i]) = Features(pre_race_clean[i])

\* b is the driver's next race after a in the final table t
NextRaceOf(t, a, b) ==
    /\ a.driver_id = b.driver_id
    /\ RaceBefore(a, b)
    /\ \A k \in 1..Len(t) :
          t[k].driver_id = a.driver_id
              => ~(RaceBefore(a, t[k]) /\ RaceBefore(t[k], b))

\* C2: for a fixed driver, over the driver's rows in chronological order,
\* cumulative_races is exactly 1 greater than in the previous row
C2_CumulativeRacesStepsByOne ==
    \A t \in FinalTables : \A i, j \in 1..Len(t[2]) :
        NextRaceOf(t[2], t[2][i], t[2][j])
            => t[2][j].cumulative_races = t[2][i].cumulative_races + 1

\* C3: the cumulative counts of a row are the number of the driver's races,
\* wins and podiums and the sum of the driver's points over exactly the
\* driver's races strictly before the row's race
C3_CumulativeCountsExcludeCurrent ==
    \A t \in FinalTables : \A i \in 1..Len(t[2]) :
        LET r     == t[2][i]
            prior == PriorRaces(t[1], r)
        IN  /\ r.cumulative_races = Cardinality(prior)
            /\ r.cumulative_wins = Cardinality({h \in prior : h.position = 1})
            /\ r.cumulative_podiums =
                   Cardinality({h \in prior : h.position \in {1, 2, 3}})
            /\ r.cumulative_points = SumPoints(prior)

-----------------------------------------------------------------------------
(* Properties of the pit-stop and grid imputation                          *)

RECURSIVE SumCells(_, _)
SumCells(col, K) ==
    IF K = {} THEN Num(0)
    ELSE LET j == CHOOSE x \in K : TRUE
         IN  FAdd(col[j], SumCells(col, K \ {j}))

\* the average of the known cells of col among the rows S, NA if none is known
KnownAverage(col, S) ==
    LET K == {j \in S : notna(col[j])}
    IN  IF K = {} THEN NA ELSE FDivInt(SumCells(col, K), Cardinality(K))

\* the rows whose cells are averaged for row i at fallback level n
LevelGroup(df, i, n) ==
    CASE n = 1 -> {j \in 1..Len(df) : df[j].team_id = df[i].team_id
                                       /\ df[j].race_id = df[i].race_id}
      [] n = 2 -> {j \in 1..Len(df) : df[j].team_id = df[i].team_id}
      [] n = 3 -> {j \in 1..Len(df) : df[j].race_id = df[i].race_id}
      [] n = 4 -> 1..Len(df)

\* the column after the first n fallback levels, each level averaging the
\* column as the level before it left it
RECURSIVE AfterLevel(_, _, _)
AfterLevel(df, col, n) ==
    IF n = 0 THEN col
    ELSE LET before == AfterLevel(df, col, n - 1)
         IN  [i \in 1..Len(df) |->
                 IF notna(before[i]) THEN before[i]
                 ELSE KnownAverage(before, LevelGroup(df, i, n))]

\* the average that level n offers to row i
LevelAverage(df, col, i, n) ==
    KnownAverage(AfterLevel(df, col, n - 1), LevelGroup(df, i, n))

\* the first level, if any, that offers row i an average
FirstLevel(df, col, i) ==
    IF \E n \in 1..4 : notna(LevelAverage(df, col, i, n))
    THEN CHOOSE n \in 1..4 :
             /\ notna(LevelAverage(df, col, i, n))
             /\ \A m \in 1..(n - 1) : isna(LevelAverage(df, col, i, m))
    ELSE 0

\* C5: a pit-time average that is known before imputation is unchanged; a
\* missing one becomes the first defined average in the order team and race,
\* team, race, whole column (each taken over the column as the earlier levels
\* left it); a level without any value is skipped and never yields 0; at the
\* first level the average is that of the teammates' known values
C5_PitFallbackOrder ==
    \A t \in FinalTables : \A c \in pit_time_cols : \A i \in 1..Len(t[1]) :
        LET col == Column(t[1], c)
            n   == FirstLevel(t[1], col, i)
        IN  /\ notna(col[i]) => t[2][i][c] = col[i]
            /\ (isna(col[i]) /\ n # 0)
                   => t[2][i][c] = LevelAverage(t[1], col, i, n)
            /\ (isna(col[i]) /\ n = 0) => isna(t[2][i][c])
            /\ (isna(col[i]) /\ n = 1)
                   => t[2][i][c] = KnownAverage(col, LevelGroup(t[1], i, 1))

\* a row missing at the team-and-race, team and race levels received the
\* column mean, in both final tables
C5_Witness ==
    /\ pre_qual_clean # NoFile
    /\ pre_race_clean # NoFile
    /\ \A t \in FinalTables : \E c \in pit_time_cols : \E i \in 1..Len(t[1]) :
          /\ isna(t[1][i][c])
          /\ FirstLevel(t[1], Column(t[1], c), i) = 4
          /\ notna(t[2][i][c])
          /\ \E j \in 1..Len(t[1]) :
                isna(t[1][j][c]) /\ FirstLevel(t[1], Column(t[1], c), j) = 2

\* the number of rows of i's race, up to and including i, without a grid place
MissingUpTo(df, i) ==
    Cardinality({j \in 1..i : df[j].race_id = df[i].race_id
                              /\ isna(df[j].start_position)})

\* the largest known grid place of i's race, 0 if the whole grid is unknown
KnownGridMax(df, i) ==
    LET known == {df[j].start_position[1] :
                    j \in {k \in 1..Len(df) : df[k].race_id = df[i].race_id
                                              /\ notna(df[k].start_position)}}
    IN  IF known = {} THEN 0 ELSE CHOOSE m \in known : \A x \in known : x <= m

\* C7: within each race the rows without a start_position get max + 1,
\* max + 2, ... in row order (1, 2, ... when the whole grid is unknown), known
\* start positions are unchanged, and no start_position is left missing
C7_GridBackfill ==
    pre_race_clean # NoFile =>
        \A i \in 1..Len(pre_race_df) :
            /\ notna(pre_race_clean[i].start_position)
            /\ notna(pre_race_df[i].start_position)
                   => pre_race_clean[i].start_position = pre_race_df[i].start_position
            /\ isna(pre_race_df[i].start_position)
                   => pre_race_clean[i].start_position
                          = Num(KnownGridMax(pre_race_df, i) + MissingUpTo(pre_race_df, i))

\* a race with a known grid place and two rows without one has been
\* backfilled, and so has a race whose whole grid was unknown
C7_Witness ==
    /\ pre_race_clean # NoFile
    /\ \E i, j \in 1..Len(pre_race_df) :
          /\ i < j
          /\ pre_race_df[i].race_id = pre_race_df[j].race_id
          /\ isna(pre_race_df[i].start_position)
          /\ isna(pre_race_df[j].start_position)
          /\ KnownGridMax(pre_race_df, i) > 0
          /\ pre_race_clean[j].start_position
                 = FAdd(pre_race_clean[i].start_position, Num(1))
    /\ \E i \in 1..Len(pre_race_df) :
          KnownGridMax(pre_race_df, i) = 0 /\ pre_race_clean[i].start_position = Num(1)

-----------------------------------------------------------------------------
(* Properties of the era reconciliation                                    *)

Rows(df) == IF df = NoFile THEN {} ELSE {df[k] : k \in 1..Len(df)}

\* the raw row a cleaned older-era row was made from
RawOf2001(r) ==
    CHOOSE q \in Rows(races_2001_raw) :
        q.driver_id = r.driver_id /\ to_datetime(q.date) = r.date

RawOf2018(r) ==
    CHOOSE q \in Rows(races_2018_raw) :
        q.driver_id = r.driver_id /\ q.race_id = r.race_id

ClassifiedDistinct(S, SameRaceOf(_, _), place(_)) ==
    \A a, b \in S :
        (a # b /\ SameRaceOf(a, b) /\ a.position_status = "CLAS"
         /\ b.position_status = "CLAS") => place(a) # place(b)

SameWeekend(a, b) == a.year = b.year /\ a.round = b.round

SameUrl(a, b) == a.race_url = b.race_url

PlaceOld(r) == r.position

PlaceNew(r) == r.end_position

\* C4: after era reconciliation (older and newer era) no row has a null
\* position, and within every race the positions of the rows with status
\* Classified are pairwise distinct.
C4_PositionBackfillComplete ==
    /\ \A r \in Rows(races_2001) : notna(r.position)
    /\ \A r \in Rows(races_2018) : notna(r.end_position)
    /\ ClassifiedDistinct(Rows(races_2001), SameWeekend, PlaceOld)
    /\ ClassifiedDistinct(Rows(races_2018), SameUrl, PlaceNew)

\* an older-era table was reconciled in which one race has two classified
\* rows and a row without a place
C4_Witness ==
    /\ races_2001 # NoFile
    /\ \E a, b, c \in Rows(races_2001) :
          /\ a # b /\ SameWeekend(a, b) /\ SameWeekend(a, c)
          /\ a.position_status = "CLAS" /\ b.position_status = "CLAS"
          /\ ~is_int(RawOf2001(c).position)

Enumerated == {"CLAS", "DNF", "NC", "DQ"}

StatusOfText(text) ==
    CASE text = "DNF" -> "DNF"
      [] text = "NC" -> "NC"
      [] text = "EX" -> "DQ"
      [] OTHER -> "CLAS"

\* C8: in the older era a row whose position text parses as an integer gets
\* that position and status Classified; a row whose text is non-numeric gets
\* status DidNotFinish for "DNF", NotClassified for "NC", Disqualified for
\* "EX" and Classified for any other text, and the position of the previous
\* row + 1 (1 if it is the very first row); every status is one of the four
\* enumerated values.
C8_OlderEraRule ==
    races_2001 # NoFile =>
        \A k \in 1..Len(races_2001) :
            LET r == races_2001[k]
                text == RawOf2001(r).position
            IN  /\ is_int(text) =>
                      r.position = Num(int(text)) /\ r.position_status = "CLAS"
                /\ ~is_int(text) =>
                      /\ r.position_status = StatusOfText(text)
                      /\ r.position = IF k = 1 THEN Num(1)
                                      ELSE FAdd(races_2001[k - 1].position, Num(1))
                /\ r.position_status \in Enumerated

-----------------------------------------------------------------------------
(* Properties of the qualifying cleaning                                   *)

\* the raw row a cleaned qualifying row was made from
RawQualOf(r) ==
    CHOOSE q \in Rows(qualifying) :
        q.driver_id = r.driver_id /\ q.race_id = r.race_id

Q1Missing(text) == text \in {NaText, "DNF", "DNS"}

\* the known Q1 times (seconds) of the race of the cleaned row r
KnownQ1(r) ==
    {time_seconds(q.q1_time) :
        q \in {x \in Rows(qualifying) :
                  x.race_id = r.race_id /\ ~Q1Missing(x.q1_time)}}

Largest(S) == CHOOSE m \in S : \A x \in S : ~FLess(m, x)

\* C6: in every race with at least one known Q1 time, a driver whose Q1
\* time is missing (null, DNF or DNS) gets q1_time = the largest known Q1
\* time of that race + 5 and q1_no_lap_time_flag true; a driver with a known
\* Q1 time keeps it with the flag false.
C6_Q1Penalty ==
    \A r \in Rows(qualifying_cleaned) :
        KnownQ1(r) # {} =>
            LET text == RawQualOf(r).q1_time
            IN  IF Q1Missing(text)
                THEN /\ r.q1_time = FAdd(Largest(KnownQ1(r)), Num(5))
                     /\ r.q1_no_lap_time_flag
                ELSE /\ r.q1_time = time_seconds(text)
                     /\ ~r.q1_no_lap_time_flag

\* a table was cleaned in which a driver without a Q1 time shares a race
\* with a driver who has one, and another race has a slower known time
C6_Witness ==
    /\ qualifying_cleaned # NoFile
    /\ \E a, b, c \in Rows(qualifying_cleaned) :
          /\ a.race_id = b.race_id /\ c.race_id # a.race_id
          /\ a.q1_no_lap_time_flag /\ ~b.q1_no_lap_time_flag
          /\ ~c.q1_no_lap_time_flag /\ FLess(b.q1_time, c.q1_time)

-----------------------------------------------------------------------------
(* Properties of the practice aggregation                                  *)

\* the row of the aggregated table for the race and driver of the raw row q
WideOf(q) ==
    CHOOSE w \in Rows(practices_aggregated) :
        w.race_id = q.race_id /\ w.driver_id = q.driver_id

\* the raw rows of one (race, driver, session)
InputRows(race_id, driver_id, session) ==
    {k \in 1..Len(practices) :
        /\ practices[k].race_id = race_id
        /\ practices[k].driver_id = driver_id
        /\ session_map(practices[k].session_type) = session}

\* the raw row k carries a known lap time
HasTime(k) == notna(lap_time_clean(practices, k))

RoundTrip ==
    \A k \in 1..Len(practices) :
        HasTime(k) =>
            WideOf(practices[k]).best_time[session_map(practices[k].session_type)]
                = lap_time_clean(practices, k)

\* C9 as stated: a known lap time of the input is reproduced in
\* best_time_<session>, and participated_<session> is true only for
\* (race, driver, session) combinations for which a time exists in the input.
C9_PivotRoundTrip ==
    practices_aggregated # NoFile =>
        /\ RoundTrip
        /\ \A w \in Rows(practices_aggregated), s \in sessions :
              w.participated[s] =>
                  \E k \in InputRows(w.race_id, w.driver_id, s) : HasTime(k)

\* the (race, session) group of the raw row k has a known lap time
GroupHasTime(k) ==
    \E j \in 1..Len(practices) :
        SameSessionGroup(practices[j], practices[k]) /\ HasTime(j)

\* C9 amended: a known lap time of the input is reproduced in
\* best_time_<session>, and participated_<session> is true exactly for the
\* (race, driver, session) combinations that have an input row in a
\* (race, session) group with at least one known lap time: a row without a
\* time of its own takes part with the imputed time.
C9_PivotRoundTripImputed ==
    practices_aggregated # NoFile =>
        /\ RoundTrip
        /\ \A w \in Rows(practices_aggregated), s \in sessions :
              w.participated[s] <=>
                  \E k \in InputRows(w.race_id, w.driver_id, s) : GroupHasTime(k)

\* a table was aggregated in which one driver has a known time and another
\* has a row without a time, in a session where a time is known or in a
\* session without any known time
C9_Witness ==
    /\ practices_aggregated # NoFile
    /\ \E k \in 1..Len(practices) : HasTime(k)
    /\ \/ \E k \in 1..Len(practices) : ~HasTime(k) /\ GroupHasTime(k)
       \/ \E k \in 1..Len(practices) :
             /\ ~GroupHasTime(k)
             /\ ~WideOf(practices[k]).participated[
                    session_map(practices[k].session_type)]

-----------------------------------------------------------------------------
(* Properties of the identity resolution                                   *)

\* the label that the next step resolves, and the map it resolves it in
NextLabel == cell_texts[Len(col_values) + 1]

MapNow == load_id_map(id_map_file, NA)

\* C10: resolving a label that is a key of the map returns its stored
\* identifier and leaves the map unchanged; resolving a label that is not a
\* key mints 1 + the largest identifier (1 for an empty map), adds
\* label -> identifier to the map and persists the map.
C10_IdentityResolution ==
    [][(Len(col_values) < Len(cell_texts) /\ notna(NextLabel)) =>
          IF has_key(MapNow, NextLabel)
          THEN /\ col_values' = Append(col_values, <<get(MapNow, NextLabel)>>)
               /\ id_map_file' = id_map_file
          ELSE /\ col_values' = Append(col_values, <<new_id(MapNow)>>)
               /\ id_map_file' = Append(MapNow, [key |-> NextLabel,
                                                 id |-> new_id(MapNow)])]_vars

-----------------------------------------------------------------------------
(* Properties of the circuit map                                           *)

\* the labels of a map
Labels(id_map) == {id_map[k].key : k \in 1..Len(id_map)}

\* the pairs of labels that clean_id_map declares to be one circuit
DeclaredSynonyms == {{Styria, Austria}, {Anniversary, GreatBritain}}

\* C11: over any sequence of label resolutions and cleanings of the map no
\* label is ever removed from the map, a label resolution leaves every label
\* of the map the identifier it has (a cleaning changes only the identifier
\* of 'Styria' and of '70th Anniversary'), and two distinct labels share an
\* identifier only if they are declared synonyms (Styria / Austria,
\* 70th Anniversary / Great Britain).
C11_MonotonicGrowth ==
    [][/\ Labels(MapNow) \subseteq Labels(MapNow')
       /\ \A label \in Labels(MapNow) :
             \/ get(MapNow', label) = get(MapNow, label)
             \/ /\ col_values' = col_values
                /\ label \in {Styria, Anniversary}
       /\ \A a \in Labels(MapNow'), b \in Labels(MapNow') :
             (a # b /\ get(MapNow', a) = get(MapNow', b))
                => {a, b} \in DeclaredSynonyms]_vars

\* a label was given an identifier after Styria had been merged into Austria
C11_Witness ==
    /\ Len(MapNow) = 3
    /\ has_key(MapNow, Styria) /\ has_key(MapNow, Austria)
    /\ get(MapNow, Styria) = get(MapNow, Austria)
    /\ MapNow[3].key = Mexico
    /\ col_values = <<<<1>>, <<2>>, <<get(MapNow, Mexico)>>>>

\* a step in which clean_id_map ran and returned without an exception
CleanedMap ==
    /\ cell_texts' = cell_texts /\ col_values' = col_values
    /\ raised' = NaText

\* the map holds both labels of every declared pair under one identifier
Merged(id_map) ==
    /\ (has_key(id_map, Styria) /\ has_key(id_map, Austria))
          => get(id_map, Styria) = get(id_map, Austria)
    /\ (has_key(id_map, Anniversary) /\ has_key(id_map, GreatBritain))
          => get(id_map, Anniversary) = get(id_map, GreatBritain)

\* C12: clean_id_map leaves a map with the same labels in which 'Styria' has
\* the identifier of 'Austria' and '70th Anniversary' that of 'Great
\* Britain' (when both labels of the pair are in the map), every other label
\* has the identifier it had before, and applied to a map that is already
\* merged it leaves the map as it is.
C12_SynonymMergeIdempotent ==
    [][CleanedMap =>
          /\ Labels(MapNow') = Labels(MapNow)
          /\ Merged(MapNow')
          /\ \A label \in Labels(MapNow) \ {Styria, Anniversary} :
                get(MapNow', label) = get(MapNow, label)
          /\ Merged(MapNow) => MapNow' = MapNow]_vars

\* the merge has been applied to a map that had already been merged: the
\* global holds the identifier that Styria shares with Austria
C12_Witness ==
    /\ has_key(MapNow, Styria) /\ has_key(MapNow, Austria)
    /\ get(MapNow, Styria) = get(MapNow, Austria)
    /\ id_map_styria = <<get(MapNow, Austria)>>
    /\ Len(col_values) = 2

-----------------------------------------------------------------------------
(* Properties of load_id_map and save_id_map                               *)

\* the latest direct call and what it returned
Call == returned[1]

\* C13: load_id_map of a file that is missing, corrupt or unreadable returns
\* the empty map, or the default that was supplied, and raises no error.
C13_ColdStart ==
    (/\ returned # NA
     /\ Call.call = "load_id_map"
     /\ id_map_file \in {NoFile, Corrupt, Unreadable})
        => /\ ~is_raise(Call.value)
           /\ Call.value = Call.default

\* C14: for every max_retries >= 0 a call of save_id_map makes at most
\* max_retries direct attempts to write and at most one attempt through a
\* temporary file, that one after the last direct attempt; it returns
\* without an exception only if the path holds the map, and raises when no
\* attempt wrote the map.
C14_BoundedRetry ==
    (returned # NA /\ Call.call = "save_id_map")
        => /\ Call.attempts <= Call.max_retries
           /\ Call.temp_attempts <= 1
           /\ Call.temp_attempts = 1 => Call.attempts = Call.max_retries
           /\ Call.raised = NaText => id_map_file = Call.id_map
           /\ id_map_file # Call.id_map => Call.raised # NaText

-----------------------------------------------------------------------------
(* Properties of the merges                                                *)

\* C15: the table that neutral_merge writes has exactly one row for every
\* row of the results table it starts from: no left join multiplies rows
\* (a join whose right-hand table has a key twice aborts the stage instead).
C15_NoFanOut ==
    f1_data_m6 # NoFile => Len(f1_data_m6) = Len(races_2018)

-----------------------------------------------------------------------------
(* Properties of the parsing of time cells                                 *)

\* the exceptions a cell that is no time raises out of a cleaning stage
ParseErrors == {"ValueError", "IndexError", "TypeError"}

\* C16: a cell of a practice lap time, a qualifying time or a pit-stop time
\* that cannot be read as a time never ends a cleaning stage with an
\* exception
C16_ParseErrorsRecovered == raised \notin ParseErrors

-----------------------------------------------------------------------------
(* Properties of the newer-era reconciliation                              *)

\* the rows of the raw table of the race of row k, and the place of row k
\* among them
RaceOfRow(raw, k) ==
    Pick(raw, AscSeq({j \in 1..Len(raw) : raw[j].race_id = raw[k].race_id}))

PlaceInRace(raw, k) ==
    Cardinality({j \in 1..k : raw[j].race_id = raw[k].race_id})

\* the counter when row k is reached: 1 at the start of a race, p + 1 after
\* a row with the numeric end position p, one more after any other row
RECURSIVE Counter(_, _)
Counter(raw, k) ==
    IF k = 1 \/ raw[k].race_id # raw[k - 1].race_id THEN 1
    ELSE IF is_int(raw[k - 1].end_position)
         THEN int(raw[k - 1].end_position) + 1
         ELSE Counter(raw, k - 1) + 1

\* C17: in the newer era a numeric end position p gives position p and the
\* status CLAS; NC and DQ give that status and the position of the counter;
\* any other value gives DNF and the position of the counter; the counter
\* starts at 1 in every race, is p + 1 after a numeric p and one more after
\* any other row, and is the same when only the rows of the race are read.
C17_NewerEraRule ==
    races_2018 # NoFile =>
        /\ Len(races_2018) = Len(races_2018_raw)
        /\ \A k \in 1..Len(races_2018) :
              LET raw == races_2018_raw
                  pos == raw[k].end_position
                  row == races_2018[k]
              IN  /\ is_int(pos) =>
                        /\ row.end_position = Num(int(pos))
                        /\ row.position_status = "CLAS"
                  /\ pos \in {"NC", "DQ"} =>
                        /\ row.end_position = Num(Counter(raw, k))
                        /\ row.position_status = pos
                  /\ (~is_int(pos) /\ pos \notin {"NC", "DQ"}) =>
                        /\ row.end_position = Num(Counter(raw, k))
                        /\ row.position_status = "DNF"
                  /\ Counter(raw, k) =
                        Counter(RaceOfRow(raw, k), PlaceInRace(raw, k))

\* a table is written in which a row without a place follows a numeric row
\* of its race, and a later race starts with a row without a place
C17_Witness ==
    /\ races_2018 # NoFile
    /\ \E k \in 2..Len(races_2018_raw) :
          /\ races_2018_raw[k].race_id = races_2018_raw[k - 1].race_id
          /\ is_int(races_2018_raw[k - 1].end_position)
          /\ races_2018_raw[k].end_position \in {"NC", "DQ"}
    /\ \E k \in 2..Len(races_2018_raw) :
          /\ races_2018_raw[k].race_id # races_2018_raw[k - 1].race_id
          /\ ~is_int(races_2018_raw[k].end_position)
          /\ races_2018[k].end_position = Num(1)

-----------------------------------------------------------------------------
(* Properties of the pit-stop averages                                     *)

\* the raw tables that differ from stops at most in the times of the stops
\* of race r and of later races
LaterVariants(stops, r) ==
    {[k \in 1..Len(stops) |->
         IF stops[k].race_id >= r
         THEN [stops[k] EXCEPT !.pits_time = text[k]] ELSE stops[k]] :
     text \in [{k \in 1..Len(stops) : stops[k].race_id >= r} -> PitTexts]}

\* the averages computed for (race r, driver d) from a raw table, before any
\* imputation; NA where the table has no such row
ComputedAverages(stops, r, d) ==
    LET agg == pit_stops_aggregated(all_pit_stops(stops, pit_stops_2016))
        at  == {g \in 1..Len(agg) : agg[g].race_id = r /\ agg[g].driver_id = d}
    IN  IF at = {} THEN NA
        ELSE LET g == CHOOSE g \in at : TRUE
             IN  <<[avg_pit_time_last_5 |-> agg[g].avg_pit_time_last_5,
                    avg_pit_time_last_10 |-> agg[g].avg_pit_time_last_10]>>

\* C18: an average avg_pit_time_last_5 or avg_pit_time_last_10 that is
\* computed for a (race, driver) depends only on the stops of strictly
\* earlier races: with other times for the stops of that race and of later
\* races the computed average is the same.
C18_PitAveragesDoNotLeak ==
    (pit_stops_clean # NoFile /\ raised = NaText) =>
        \A g \in 1..Len(pit_stops_clean) :
            \A row \in {pit_stops_clean[g]} :
               \A now \in {ComputedAverages(pit_stops, row.race_id,
                                            row.driver_id)} :
                  \A col \in {c \in pit_time_cols : notna(now[1][c])} :
                     /\ row[col] = now[1][col]
                     /\ \A other \in LaterVariants(pit_stops, row.race_id) :
                           \A then \in {ComputedAverages(other, row.race_id,
                                                         row.driver_id)} :
                              (then # NA /\ notna(then[1][col])) =>
                                 then[1][col] = now[1][col]

-----------------------------------------------------------------------------
(* Properties of the status rates                                          *)

\* C19: for a driver with at least one race strictly before the race of a
\* final row, CLAS_rate, DNF_rate and NC_rate of the row are the number of
\* those earlier races with that status divided by the number of those
\* earlier races; the race of the row is in neither.
C19_StatusRates ==
    \A t \in FinalTables : \A i \in 1..Len(t[2]) :
        LET r     == t[2][i]
            prior == PriorRaces(t[1], r)
        IN  prior # {} =>
               \A st \in rate_statuses :
                  r.rate[st] =
                     Frac(Cardinality({h \in prior : h.position_status = st}),
                          Cardinality(prior))

-----------------------------------------------------------------------------
(* Properties of the qualifying flags of the final pre-race table          *)

\* the time of the session was missing for row i of the intermediate table:
\* missing in the raw table and imputed since (its flag is set), or still
\* missing because the driver has no qualifying row
OriginallyMissing(df, i, session) ==
    df[i][flag_col(session)] = <<TRUE>> \/ isna(df[i][q_col(session)])

\* C20: in the final pre-race table q<n>_no_lap_time_flag of a row is true
\* exactly when the q<n>_time of the driver was originally missing (and is
\* imputed), and false when a valid time exists.
C20_NoLapTimeFlags ==
    pre_race_clean # NoFile =>
        \A i \in 1..Len(pre_race_clean), session \in 1..3 :
            pre_race_clean[i][flag_col(session)]
                <=> OriginallyMissing(pre_race_df, i, session)

-----------------------------------------------------------------------------
(* Properties of the Q2 and Q3 penalties                                   *)

\* the known times (seconds) of the column col in the race of the cleaned
\* row r, from the raw qualifying table
KnownQ(r, col) ==
    {time_seconds(q[col]) :
        q \in {x \in Rows(qualifying) :
                  x.race_id = r.race_id /\ ~Q1Missing(x[col])}}

\* the times of session n present in the race of row i of the intermediate
\* pre-race table
PresentQ(i, session) ==
    {pre_race_df[j][q_col(session)] :
        j \in {k \in 1..Len(pre_race_df) :
                  /\ pre_race_df[k].race_id = pre_race_df[i].race_id
                  /\ notna(pre_race_df[k][q_col(session)])}}

\* the cutoff of the qualifying position for the session of a column
CutoffOf(col) == IF col = "q2_time" THEN Q2_CUTOFF ELSE Q3_CUTOFF

\* the pre-race step gives a missing Q2 or Q3 time the largest time of the
\* race + 10
PreRacePenalty ==
    pre_race_clean # NoFile =>
        \A i \in 1..Len(pre_race_clean), session \in {2, 3} :
            (isna(pre_race_df[i][q_col(session)]) /\ PresentQ(i, session) # {}) =>
                pre_race_clean[i][q_col(session)] =
                    FAdd(Largest(PresentQ(i, session)), Num(10))

\* C21 as stated: in every race with a known time of the session, each
\* missing Q2 and Q3 time is the largest known time of that race and session
\* + 10, in the qualifying cleaning step and in the pre-race step.
C21_Q2Q3Penalty ==
    /\ \A r \in Rows(qualifying_cleaned), col \in {"q2_time", "q3_time"} :
          (Q1Missing(RawQualOf(r)[col]) /\ KnownQ(r, col) # {}) =>
              r[col] = FAdd(Largest(KnownQ(r, col)), Num(10))
    /\ PreRacePenalty

\* C21 as the stages compute it: in the qualifying cleaning step a missing
\* Q2 (Q3) time is the largest known time of the race and session + 5 for a
\* driver whose qualifying position is within the first 15 (10), and + 10
\* for the others; in the pre-race step it is the largest time + 10.
C21_Q2Q3PenaltyByAdvance ==
    /\ \A r \in Rows(qualifying_cleaned), col \in {"q2_time", "q3_time"} :
          (Q1Missing(RawQualOf(r)[col]) /\ KnownQ(r, col) # {}) =>
              r[col] = FAdd(Largest(KnownQ(r, col)),
                            Num(IF r.qual_position <= CutoffOf(col)
                                THEN 5 ELSE 10))
    /\ PreRacePenalty

\* a table was cleaned in which a driver of Q3 without a Q3 time and a driver
\* eliminated in Q2 are in a race with a known Q3 time
C21_Witness ==
    /\ qualifying_cleaned # NoFile
    /\ \E a, b, c \in Rows(qualifying_cleaned) :
          /\ a.race_id = b.race_id /\ b.race_id = c.race_id
          /\ a.qual_position <= Q3_CUTOFF /\ a.q3_no_lap_time_flag
          /\ b.qual_position > Q3_CUTOFF
          /\ ~c.q3_no_lap_time_flag /\ ~Q1Missing(RawQualOf(c).q3_time)
          /\ FLess(a.q3_time, b.q3_time)

\* the race of a row of the raw flag table
RaceOfFlag(x) == IF x.race_id = "unknown" THEN 3 ELSE int(x.race_id)

\* the rows of the session Race in the raw flag table
RaceFlags == {x \in Rows(flags_raw) : x.session = "Race"}

\* the rows of the races at the circuit of the race r before r
EarlierAtCircuit(r) ==
    {x \in RaceFlags : /\ CircuitOfRace(RaceOfFlag(x)) = CircuitOfRace(r)
                       /\ RaceOfFlag(x) < r}

\* the share of the rows of S with a count above 0, with the pseudo-count n
ShareOf(S, col, n) ==
    Frac(Cardinality({x \in S : x[col] > 0}) + n, Cardinality(S) + 2 * n)

\* C22: every probability of a race is the share of the earlier races at its
\* circuit (the race itself and the later ones left out) with a count above
\* 0, smoothed with a pseudo-count of 1; for the first race at a circuit it
\* is the share over all races of the table.
C22_FlagProbabilities ==
    flags # NoFile =>
        \A row \in Rows(flags), c \in prob_cols :
            \A earlier \in {EarlierAtCircuit(row.race_id)} :
                row[c] = IF earlier = {}
                         THEN ShareOf(RaceFlags, count_col(c), 0)
                         ELSE ShareOf(earlier, count_col(c), 1)

\* a table was written where the first race at a circuit, run with yellow
\* flags, has the share over all races and the next race at the circuit has
\* the smoothed share of the first one
C22_Witness ==
    /\ flags # NoFile
    /\ \E a, b \in Rows(flags) :
          /\ a.circuit_id = b.circuit_id /\ a.race_id < b.race_id
          /\ a.yellow_flag_prob = Frac(1, 2)
          /\ b.yellow_flag_prob = Frac(2, 3)
          /\ b.safety_car_prob = Frac(1, 3)

-----------------------------------------------------------------------------
(* Properties of the rolling average finish                                *)

RECURSIVE SumPositions(_)
SumPositions(S) ==
    IF S = {} THEN 0
    ELSE LET h == CHOOSE x \in S : TRUE IN h.position + SumPositions(S \ {h})

\* the n races of P run last
LatestOf(P, n) ==
    CHOOSE L \in SUBSET P :
        /\ Cardinality(L) = n
        /\ \A a \in L, b \in P \ L : RaceBefore(b, a)

\* the mean finishing position of the n races of the driver immediately
\* before the race of r, missing with fewer than n such races
MeanOfLast(df, r, n) ==
    IF Cardinality(PriorRaces(df, r)) < n THEN NA
    ELSE Frac(SumPositions(LatestOf(PriorRaces(df, r), n)), n)

-----------------------------------------------------------------------------
(* Properties of the lap-time imputation of the practice table             *)

\* the last raw row of the (race, session) group of row k with a known time
LastTimed(k) ==
    CHOOSE j \in 1..Len(practices) :
        /\ SameSessionGroup(practices[j], practices[k]) /\ HasTime(j)
        /\ \A i \in (j + 1)..Len(practices) :
              SameSessionGroup(practices[i], practices[k]) => ~HasTime(i)

\* the best time of the raw row k in the aggregated table
AggregatedTime(k) ==
    WideOf(practices[k]).best_time[session_map(practices[k].session_type)]

\* C24: in every (race, session) group of the practice table with a known
\* lap time, a missing lap time becomes 1.05 times the most recent known
\* time of the group, and a known time is kept; no time of another group
\* is used.
C24_LapTimeImputation ==
    practices_aggregated # NoFile =>
        \A k \in 1..Len(practices) :
            GroupHasTime(k) =>
                AggregatedTime(k) =
                    IF HasTime(k) THEN lap_time_clean(practices, k)
                    ELSE LET t == lap_time_clean(practices, LastTimed(k))
                         IN  Frac(t[1] * 105, t[2] * 100)

\* a table was aggregated in which a row without a time follows two known
\* times of its group, and a later group of the race has another known time
C24_Witness ==
    /\ practices_aggregated # NoFile
    /\ \E i, j, k, n \in 1..Len(practices) :
          /\ i < j /\ j < k /\ k < n
          /\ SameSessionGroup(practices[i], practices[k])
          /\ SameSessionGroup(practices[j], practices[k])
          /\ ~SameSessionGroup(practices[n], practices[k])
          /\ HasTime(i) /\ HasTime(j) /\ ~HasTime(k) /\ HasTime(n)
          /\ lap_time_clean(practices, i) # lap_time_clean(practices, j)
          /\ lap_time_clean(practices, n) # lap_time_clean(practices, j)

-----------------------------------------------------------------------------
(* Properties of the position backfill of the practice table               *)

\* the positions of the raw rows of a race and session
KnownPlaces(race_id, session) ==
    {practices[k].position[1] :
        k \in {j \in 1..Len(practices) :
                  /\ practices[j].race_id = race_id
                  /\ session_map(practices[j].session_type) = session}}

\* row n of the aggregated table has no raw row of the session
NoPlace(n, session) ==
    InputRows(practices_aggregated[n].race_id,
              practices_aggregated[n].driver_id, session) = {}

\* the rows of the aggregated table up to row n, of the race of row n,
\* without a raw row of the session
NoPlaceUpTo(n, session) ==
    {k \in 1..n : /\ practices_aggregated[k].race_id =
                        practices_aggregated[n].race_id
                  /\ NoPlace(k, session)}

\* C25: in every race and session of the aggregated table, the rows with a
\* missing position take the places after the largest known one, in row
\* order (from 1 when none is known), the known positions are kept, and all
\* positions of the race and session are present and pairwise distinct when
\* the known ones are.
C25_PositionBackfill ==
    practices_aggregated # NoFile =>
        \A n \in 1..Len(practices_aggregated), s \in sessions :
            \A w \in {practices_aggregated[n]},
               known \in {KnownPlaces(practices_aggregated[n].race_id, s)} :
                /\ notna(w.position[s])
                /\ \A k \in InputRows(w.race_id, w.driver_id, s) :
                      w.position[s] = practices[k].position
                /\ NoPlace(n, s) =>
                      w.position[s] =
                          Num((IF known = {} THEN 0
                               ELSE CHOOSE m \in known : \A x \in known : x <= m)
                              + Cardinality(NoPlaceUpTo(n, s)))
                /\ \A m \in 1..(n - 1) :
                      practices_aggregated[m].race_id = w.race_id =>
                          practices_aggregated[m].position[s] # w.position[s]

\* a table was aggregated in which two drivers without a row in the second
\* session follow a driver classified fourth in it, and two drivers of a
\* later race have no row in the first session
C25_Witness ==
    /\ practices_aggregated # NoFile
    /\ \E a, b, c, d, e \in Rows(practices_aggregated) :
          /\ a.race_id = 1 /\ b.race_id = 1 /\ c.race_id = 1
          /\ a.position["FP2"] = Num(4)
          /\ b.position["FP2"] = Num(5)
          /\ c.position["FP2"] = Num(6)
          /\ d.race_id = 2 /\ e.race_id = 2
          /\ d.position["FP1"] = Num(1)
          /\ e.position["FP1"] = Num(2)

-----------------------------------------------------------------------------
(* Properties of the practice imputation of the final tables               *)

\* the positions of session n present in the race of row i of the
\* intermediate table df
ObservedPlaces(df, i, n) ==
    {df[k].position_FP[n] :
        k \in {j \in 1..Len(df) : /\ df[j].race_id = df[i].race_id
                                  /\ notna(df[j].position_FP[n])}}

\* C26: in both final tables, for every session and race, a row with a
\* missing position gets the largest position observed in the race + 1 (no
\* position is left missing, so the step completes), a missing lap count
\* becomes 0, recorded_lap_time is false where the best time is missing,
\* participated is false where the lap count is missing and no
\* participation value exists, and the values that were present are kept.
C26_PostMergePractice ==
    /\ raised # "ValueError"
    /\ \A t \in FinalTables :
          \A i \in 1..Len(t[1]), n \in session_nums :
              \A old \in {t[1][i]}, new \in {t[2][i]} :
                  /\ new.position_FP[n] =
                        IF notna(old.position_FP[n]) THEN old.position_FP[n]
                        ELSE FAdd(Largest(ObservedPlaces(t[1], i, n)), Num(1))
                  /\ new.lap_count_FP[n] = fillna(old.lap_count_FP[n], Num(0))
                  /\ isna(old.best_time_FP[n]) => ~new.recorded_lap_time_FP[n]
                  /\ notna(old.best_time_FP[n]) =>
                        /\ new.best_time_FP[n] = old.best_time_FP[n]
                        /\ <<new.recorded_lap_time_FP[n]>> =
                               old.recorded_lap_time_FP[n]
                  /\ (isna(old.lap_count_FP[n]) /\ isna(old.participated_FP[n]))
                        => ~new.participated_FP[n]
                  /\ notna(old.participated_FP[n]) =>
                        <<new.participated_FP[n]>> = old.participated_FP[n]

-----------------------------------------------------------------------------
(* Properties of the run of all stages                                     *)

\* the stage name is running
Running(name) == in_stage /\ stages[stage] = name

\* the cleaning stages: the calls before the merges
CleaningStages ==
    {"clean_id_map", "clean_results_2001", "clean_results_2018",
     "clean_practices_2018", "clean_qualifying_2018",
     "clean_starting_grid_2018", "clean_pit_stops_2018", "clean_laps",
     "clean_weather", "clean_flags", "clean_circuits", "clean_locations"}

\* the stages that write what the stage name reads
WritersFor(name) ==
    {w \in CleaningStages \ {name} :
        \E k \in 1..Len(outputs(w)) : outputs(w)[k] \in inputs(name)}

\* C27: a stage that reads the result of another stage runs only when that
\* stage has returned: clean_id_map before clean_results_2018 starts,
\* clean_results_2018 before clean_laps, clean_weather and clean_flags
\* start, every cleaning stage before neutral_merge starts.
C27_StageOrdering ==
    /\ Running("clean_results_2018") => "clean_id_map" \in done
    /\ \A name \in {"clean_laps", "clean_weather", "clean_flags"} :
          Running(name) => "clean_results_2018" \in done
    /\ Running("neutral_merge") => CleaningStages \subseteq done
    /\ \A n \in 1..Len(stages) :
          Running(stages[n]) => WritersFor(stages[n]) \subseteq done

\* neutral_merge is running after the twelve cleaning stages
C27_Witness ==
    /\ Running("neutral_merge")
    /\ Cardinality(done) = 12
    /\ <<"flags_clean.csv", "clean_flags">> \in files

\* the stage that each file of data/clean belongs to
OwnerOf(file) ==
    CASE file = "race_results_clean_2001-2017.csv" -> "clean_results_2001"
      [] file = "race_results_clean_2018+.csv" -> "clean_results_2018"
      [] file = "practice_results_clean.csv" -> "clean_practices_2018"
      [] file = "qualifying_results_clean.csv" -> "clean_qualifying_2018"
      [] file = "starting_grid_clean.csv" -> "clean_starting_grid_2018"
      [] file = "pit_stops_clean.csv" -> "clean_pit_stops_2018"
      [] file = "laps_clean.csv" -> "clean_laps"
      [] file = "weather_qualifying_clean.csv" -> "clean_weather"
      [] file = "flags_clean.csv" -> "clean_flags"
      [] file = "circuits_clean.csv" -> "clean_circuits"
      [] file = "locations_clean.csv" -> "clean_locations"

CleanFiles ==
    {"race_results_clean_2001-2017.csv", "race_results_clean_2018+.csv",
     "practice_results_clean.csv", "qualifying_results_clean.csv",
     "starting_grid_clean.csv", "pit_stops_clean.csv", "laps_clean.csv",
     "weather_qualifying_clean.csv", "flags_clean.csv", "circuits_clean.csv",
     "locations_clean.csv"}

\* C29: when the cleaning stages of a run have returned, laps_clean.csv is
\* the file that clean_laps wrote and every file of data/clean was last
\* written by the stage it belongs to.
C29_NoOverwrite ==
    CleaningStages \subseteq done =>
        /\ <<"laps_clean.csv", "clean_laps">> \in files
        /\ \A x \in files : x[1] \in CleanFiles => x[2] = OwnerOf(x[1])

-----------------------------------------------------------------------------
(* Properties of the identifiers of the circuit map                        *)

\* the identifiers that a label other than the given one has or has had:
\* those of the map, those returned for the cells resolved so far, and the
\* ones that Styria and 70th Anniversary held before a merge
AssignedToOther(label) ==
    {MapNow[k].id : k \in {j \in 1..Len(MapNow) : MapNow[j].key # label}}
    \cup {col_values[k][1] : k \in {j \in 1..Len(col_values) :
                                      /\ notna(col_values[j])
                                      /\ cell_texts[j] # label}}
    \cup (IF label = Styria THEN {}
          ELSE {id_map_styria[k] : k \in 1..Len(id_map_styria)})
    \cup (IF label = Anniversary THEN {}
          ELSE {id_map_anniversary[k] : k \in 1..Len(id_map_anniversary)})

\* C28: over any sequence of label resolutions and merges of synonyms, the
\* identifier given to a label that is new to the map has never been the
\* identifier of another label of the map before, the identifier that a
\* merged synonym held before the merge included.
C28_IdentifierFreshness ==
    [][Len(MapNow') > Len(MapNow) =>
          MapNow'[Len(MapNow')].id
              \notin AssignedToOther(MapNow'[Len(MapNow')].key)]_vars

\* Mexico was given the identifier that Styria held before the merge
ReusedAfterMerge ==
    /\ MapNow = <<[key |-> Austria, id |-> 1], [key |-> Styria, id |-> 1],
                  [key |-> Mexico, id |-> 2]>>
    /\ col_values = <<<<1>>, <<2>>, <<2>>>>
    /\ id_map_styria = <<2>>

-----------------------------------------------------------------------------
(* Properties of the remapping of the synonym circuits                     *)

\* clean_id_map has run in the process: it bound a global
MapCleaned == id_map_styria # Unbound \/ id_map_anniversary # Unbound

\* C30: after clean_id_map and then clean_results_2018, every result row of
\* a race scraped as 'Styria' (as '70th Anniversary') carries the identifier
\* that the circuit map gives 'Austria' ('Great Britain'), for every circuit
\* map, on the first run and on a run over the merged map; with a map that
\* lacks a synonym label the stage completes without remapping.
C30_RemapFollowsMap ==
    MapCleaned =>
        /\ raised # "NameError"
        /\ races_2018 # NoFile =>
              \A k \in 1..Len(races_2018) :
                  /\ (races_2018[k].circuit_name = Styria
                      /\ has_key(MapNow, Austria)) =>
                         races_2018[k].circuit_id = get(MapNow, Austria)
                  /\ (races_2018[k].circuit_name = Anniversary
                      /\ has_key(MapNow, GreatBritain)) =>
                         races_2018[k].circuit_id = get(MapNow, GreatBritain)

====
